---- MODULE Spec2Model ----
(***************************************************************************)
(* cloud-init hotplug hook (cloudinit/cmd/devel/hotplug_hook.py).          *)
(*                                                                         *)
(* One hotplug-hook process at a time runs handle_args for one of the      *)
(* three sub-commands (query, handle, enable); when it has exited the next *)
(* process may start.  The persisted hotplug.enabled file outlives the     *)
(* processes.  The collaborators that are not part of the module (the      *)
(* datasource, the distro, the network activator, the persistence          *)
(* callback, write_file, install_hotplug) are the environment: each call   *)
(* of one of them picks one of the outcomes it can have.                   *)
(*                                                                         *)
(* Time is the number of seconds slept: time.sleep(n) advances the clock   *)
(* by n, every other step takes no time.                                   *)
(*                                                                         *)
(* The NoCloud datasource (cloudinit/sources/DataSourceNoCloud.py) is a    *)
(* second specification, SpecNoCloud, over variables of its own: one       *)
(* DataSourceNoCloud or DataSourceNoCloudNet object and one call of its    *)
(* _get_data, a step for each source it asks.  What the sources hold (the  *)
(* DMI serial, the command line, the seed directories, the volumes, the    *)
(* seedfrom URL) is the environment.  Under Spec the NoCloud variables     *)
(* rest, under SpecNoCloud the hotplug variables do.                       *)
(***************************************************************************)
EXTENDS Integers, Sequences, FiniteSets, TLC

(* ------------------------------ bounds -------------------------------- *)
\* hotplug_retry_settings.sleep_total is 0 or MaxSleepTotal
MaxSleepTotal == 50
\* hotplug_retry_settings.sleep_period is one of these two: a second round of
\* the force-retry loop starts within MaxSleepTotal after a first round
\* that slept less than a second, or never
SleepPeriodShort == 49
SleepPeriodLong == 50

SleepTotals == {0, MaxSleepTotal}
SleepPeriods == {SleepPeriodShort, SleepPeriodLong}
\* os.getuid(): root and some other user
Uids == {0, 1000}
\* args.udevaction as handle_hotplug may be given it (argparse admits "add")
UdevActions == {"add", "remove"}

(* ----------------------------- constants ------------------------------ *)
\* try_hotplug: wait_times = [1, 3, 5, 10, 30]
wait_times == <<1, 3, 5, 10, 30>>

\* EventScope.NETWORK.value, and a scope this module has no subsystem for
NETWORK == "network"
EventScopes == {NETWORK, "other"}

\* SUBSYSTEM_PROPERTIES_MAP = {"net": (NetHandler, EventScope.NETWORK)}
SUBSYSTEM_PROPERTIES_MAP == [net |-> [handler_cls |-> "NetHandler", scope |-> NETWORK]]
\* -s/--subsystem has choices=["net"]
subsystem == "net"

None == "None"

(* ----------------------------- exceptions ----------------------------- *)
\* An exception object: what raised it, and in which round (call of
\* try_hotplug) and attempt (1..5; the code's enumerate index plus one) it
\* was raised.  Two exceptions of different attempts are different objects.
NoExc == [kind |-> "none", round |-> 0, attempt |-> 0]
\* try_hotplug: last_exception = Exception("Bug while processing hotplug event.")
Placeholder == [kind |-> "Exception: Bug while processing hotplug event.",
                round |-> 0, attempt |-> 0]

VARIABLES
    pc,                 \* where the process is
    hotplug_action,     \* args.hotplug_action
    outcome,            \* how handle_args ended: "returned", "raised", "sys_exit"
    exc,                \* the exception that left handle_args
    inflight,           \* the exception propagating to handle_args' except clause
    printed,            \* what query/enable printed on stdout
    datasource,         \* the datasource the Init object fetched
    udevaction,         \* event_handler.action
    clock,              \* time.time() of this process, seconds since it started
    start,              \* handle_hotplug: start = time.time()
    round,              \* calls of try_hotplug made by handle_hotplug
    attempt,            \* try_hotplug: the attempt running, 1..5
    last_exception,     \* try_hotplug: last_exception
    slept,              \* the waits try_hotplug's current call slept, in order
    roundSleeps,        \* time.sleep(sleep_period) calls of handle_hotplug
    nRefresh,           \* calls of datasource.update_metadata_if_supported
    nDetect,            \* calls of event_handler.detect_hotplugged_device
    nApply,             \* calls of event_handler.apply
    nSuccess,           \* calls of success_fn (hotplug_init._write_to_cache)
    netcfgHasDev,       \* datasource.network_config lists the device's MAC
    everPresent,        \* some refresh of this process listed the device
    att,                \* the steps of the current attempt and their results
    lastRaised,         \* the exception most recently raised inside the try block
    firstFound,         \* attempt 1 of round 1 detected the device
    firstDone,          \* attempt 1 of round 1 ran all its steps without raising
    fetched,            \* what hotplug_init.fetch(existing="trust") did:
                        \* "ok", "none" (returned None) or "raises"
    uid,                \* os.getuid()
    hotplug_enabled_file, \* enable_hotplug: the scopes list it read
    result,             \* what enable_hotplug returned
    nWrites,            \* util.write_file calls of this process
    nInstalls,          \* install_hotplug calls of this process
    fileAtStart,        \* the persisted scopes when this process started
    scopesOnDisk,       \* hotplug.enabled on disk: its "scopes" list
    installed,          \* install_hotplug has completed at least once
    prev                \* "enabled" if the process before this one was an
                        \* enable whose enable_hotplug returned True

(* The NoCloud datasource (cloudinit/sources/DataSourceNoCloud.py): one   *)
(* DataSourceNoCloud or DataSourceNoCloudNet object and one call of its    *)
(* _get_data.                                                              *)
VARIABLES
    step,               \* where _get_data is
    supported_seed_starts, \* self.supported_seed_starts
    dsmode,             \* self.dsmode
    ds_cfg,             \* self.ds_cfg
    mydata,             \* _get_data: mydata
    found,              \* _get_data: found
    devlist,            \* the devices of self._get_devices(label) not yet tried
    seed,               \* self.seed
    metadata,           \* self.metadata
    userdata_raw,       \* self.userdata_raw
    vendordata_raw,     \* self.vendordata_raw
    network_config,     \* self._network_config
    network_eni,        \* self._network_eni
    ret,                \* what _get_data returned, or "raised"
    contribs,           \* what each source that was merged supplied, in order
    consulted,          \* the sources _get_data has asked, in order
    fetches,            \* the URLs util.read_seeded was called with, in order
    tape,               \* what each source answered, in the order of the asking
    pos,                \* 0, or the place on the tape of the next answer when
                        \* _get_data runs again over the same source data
    first,              \* what the first of two runs of _get_data ended with
    blkid,              \* the block devices and their tags, where _get_devices
                        \* is looked at by itself
    reads               \* what the network_config property returned, read by read

(* Two enable_hotplug calls of two hotplug-hook processes that run at the  *)
(* same time over the one hotplug.enabled file (scopesOnDisk).             *)
VARIABLES
    epc,                \* where each of the two enable_hotplug calls is
    efile,              \* each call's hotplug_enabled_file["scopes"]
    eresult,            \* what each call returned, or "raised"
    einstalls           \* how often each call has called install_hotplug

(* The ExtraConfig datasource (cloudinit/sources/DataSourceExtraConfig.py): *)
(* one DataSourceExtraConfig object and its get_data calls.                *)
VARIABLES
    ec_step,            \* where get_data is
    ec_ds_cfg,          \* self.ds_cfg
    ec_userdata_raw,    \* self.userdata_raw
    ec_metadata,        \* self.metadata
    md_raw,             \* get_data: md_raw
    ud_raw,             \* get_data: ud_raw
    ec_ret,             \* what get_data returned, or "raised"
    ec_before           \* userdata_raw and metadata when get_data was called

(* parse_metadata of DataSourceExtraConfig by itself.                      *)
VARIABLES
    raw_metadata,       \* parse_metadata: raw_metadata
    seperator,          \* parse_metadata: seperator
    hsh,                \* parse_metadata: hsh
    returned            \* parse_metadata has returned

(* The SoftLayer datasource (cloudinit/sources/DataSourceSoftLayer.py): one *)
(* DataSourceSoftLayer object and its get_data calls.                      *)
VARIABLES
    sl_step,            \* the place of the item get_data fetches next
    sl_metadata,        \* self.metadata
    sl_userdata_raw,    \* self.userdata_raw
    sl_ret,             \* what get_data returned
    sl_before,          \* metadata and userdata_raw when get_data was called
    sl_items            \* what each readurl of this call gave


procVars    == <<pc, hotplug_action, outcome, exc, inflight, printed>>
dsVars      == <<datasource, udevaction, fetched>>
tryVars     == <<clock, start, round, attempt, last_exception, slept, roundSleeps>>
countVars   == <<nRefresh, nDetect, nApply, nSuccess>>
attemptVars == <<netcfgHasDev, everPresent, att, lastRaised, firstFound, firstDone>>
enableVars  == <<uid, hotplug_enabled_file, result, nWrites, nInstalls>>
diskVars    == <<scopesOnDisk, installed>>
ghostVars   == <<fileAtStart, prev>>
hotplugVars == <<procVars, dsVars, tryVars, countVars, attemptVars, enableVars,
                 diskVars, ghostVars>>
objVars == <<supported_seed_starts, dsmode, ds_cfg, seed, metadata, userdata_raw,
             vendordata_raw, network_config, network_eni>>
callVars == <<step, mydata, found, devlist, ret, contribs, consulted, fetches>>
tapeVars == <<tape, pos, first>>
sideVars == <<blkid, reads>>
seedVars == <<objVars, callVars, tapeVars, sideVars>>
enablersVars == <<epc, efile, eresult, einstalls>>
extraVars == <<ec_step, ec_ds_cfg, ec_userdata_raw, ec_metadata, md_raw, ud_raw,
               ec_ret, ec_before>>
parseVars == <<raw_metadata, seperator, hsh, returned>>
softVars == <<sl_step, sl_metadata, sl_userdata_raw, sl_ret, sl_before, sl_items>>
otherVars == <<enablersVars, extraVars, parseVars, softVars>>
vars == <<hotplugVars, seedVars, otherVars>>

\* sources.DSMODE_*
DSMODE_DISABLED == <<"disabled">>
DSMODE_LOCAL == <<"local">>
DSMODE_NETWORK == <<"network">>

\* None where the other values are tuples of strings
NoneT == <<None>>

\* {} as a metadata dictionary: keys are strings, values are tuples of strings
EmptyDict == [k \in {} |-> <<>>]

\* _get_data: mydata as it is initialised
EmptyMydata ==
    [k \in {"meta-data", "user-data", "vendor-data", "network-config"} |->
        CASE k = "meta-data" -> EmptyDict
          [] k = "user-data" -> ""
          [] k = "vendor-data" -> ""
          [] k = "network-config" -> None]

\* No NoCloud object exists (the hotplug hook is what runs).
\* no block device table
NoBlkid == [d \in {} |-> <<>>]

NoSeedObject ==
    /\ step = "none"
    /\ supported_seed_starts = {}
    /\ dsmode = DSMODE_NETWORK
    /\ ds_cfg = EmptyDict
    /\ mydata = EmptyMydata
    /\ found = <<>>
    /\ devlist = <<>>
    /\ seed = NoneT
    /\ metadata = EmptyDict
    /\ userdata_raw = None
    /\ vendordata_raw = None
    /\ network_config = None
    /\ network_eni = NoneT
    /\ ret = None
    /\ contribs = <<>>
    /\ consulted = <<>>
    /\ fetches = <<>>
    /\ tape = <<>>
    /\ pos = 0
    /\ first = [ret |-> None]
    /\ blkid = NoBlkid
    /\ reads = <<>>

\* hotplug_retry_settings of a datasource that declares none
NoDatasource == [is_none |-> TRUE, supported |-> {}, enabled |-> FALSE,
                 skip_hotplug_detect |-> FALSE, force_retry |-> FALSE,
                 sleep_total |-> 0, sleep_period |-> 0]
NoAttempt == [steps |-> <<>>, refresh |-> "none", found |-> FALSE, applied |-> FALSE]

Exc(kind) == [kind |-> kind, round |-> round, attempt |-> attempt]

InRange(s) == {s[i] : i \in DOMAIN s}

\* No enable_hotplug calls run side by side.
NoEnablers ==
    /\ epc = <<>>
    /\ efile = <<>>
    /\ eresult = <<>>
    /\ einstalls = <<>>

\* No DataSourceExtraConfig object.
NoExtraConfigObject ==
    /\ ec_step = "none"
    /\ ec_ds_cfg = EmptyDict
    /\ ec_userdata_raw = NoneT
    /\ ec_metadata = EmptyDict
    /\ md_raw = <<>>
    /\ ud_raw = <<>>
    /\ ec_ret = None
    /\ ec_before = <<>>

\* No parse_metadata call by itself.
NoParse ==
    /\ raw_metadata = <<>>
    /\ seperator = "&"
    /\ hsh = EmptyDict
    /\ returned = FALSE

\* No DataSourceSoftLayer object.
NoSoftLayerObject ==
    /\ sl_step = 0
    /\ sl_metadata = EmptyDict
    /\ sl_userdata_raw = None
    /\ sl_ret = None
    /\ sl_before = <<>>
    /\ sl_items = <<>>

(* ------------------------------- Init --------------------------------- *)
\* No process has run.  hotplug.enabled is absent (read as no scopes) or was
\* left by an earlier boot with some scope this module does not handle.
HotplugInit ==
    /\ pc = "handle_args"
    /\ hotplug_action = "none"
    /\ outcome = "none"
    /\ exc = NoExc
    /\ inflight = NoExc
    /\ printed = ""
    /\ datasource = NoDatasource
    /\ udevaction = "none"
    /\ fetched = "not called"
    /\ clock = 0
    /\ start = 0
    /\ round = 0
    /\ attempt = 0
    /\ last_exception = NoExc
    /\ slept = <<>>
    /\ roundSleeps = 0
    /\ nRefresh = 0
    /\ nDetect = 0
    /\ nApply = 0
    /\ nSuccess = 0
    /\ netcfgHasDev = FALSE
    /\ everPresent = FALSE
    /\ att = NoAttempt
    /\ lastRaised = NoExc
    /\ firstFound = FALSE
    /\ firstDone = FALSE
    /\ uid = 0
    /\ hotplug_enabled_file = <<>>
    /\ result = None
    /\ nWrites = 0
    /\ nInstalls = 0
    /\ scopesOnDisk \in {<<>>, <<"other">>}
    /\ fileAtStart = scopesOnDisk
    /\ installed = FALSE
    /\ prev = "none"

Init ==
    /\ HotplugInit
    /\ NoSeedObject
    /\ NoEnablers
    /\ NoExtraConfigObject
    /\ NoParse
    /\ NoSoftLayerObject

(* ---------------------------- handle_args ----------------------------- *)
\* A hotplug-hook process starts (the first, or the next after one exited).
\* Everything but the disk is the new process's own.
HandleArgs ==
    /\ pc \in {"handle_args", "exit"}
    /\ \E a \in {"query", "handle", "enable"} :
         /\ hotplug_action' = a
         /\ pc' = CASE a = "query"  -> "query"
                    [] a = "handle" -> "handle_hotplug"
                    [] a = "enable" -> "getuid"
    /\ outcome' = "none"
    /\ exc' = NoExc
    /\ inflight' = NoExc
    /\ printed' = ""
    /\ datasource' = NoDatasource
    /\ udevaction' = "none"
    /\ fetched' = "not called"
    /\ clock' = 0
    /\ start' = 0
    /\ round' = 0
    /\ attempt' = 0
    /\ last_exception' = NoExc
    /\ slept' = <<>>
    /\ roundSleeps' = 0
    /\ nRefresh' = 0
    /\ nDetect' = 0
    /\ nApply' = 0
    /\ nSuccess' = 0
    /\ netcfgHasDev' = FALSE
    /\ everPresent' = FALSE
    /\ att' = NoAttempt
    /\ lastRaised' = NoExc
    /\ firstFound' = FALSE
    /\ firstDone' = FALSE
    /\ uid' = 0
    /\ hotplug_enabled_file' = <<>>
    /\ result' = None
    /\ nWrites' = 0
    /\ nInstalls' = 0
    /\ fileAtStart' = scopesOnDisk
    /\ prev' = IF hotplug_action = "enable" /\ result = "True"
               THEN "enabled" ELSE "other"
    /\ UNCHANGED diskVars
    /\ UNCHANGED <<seedVars, otherVars>>

\* handle_args returns: the with block and the try block end normally.
ReturnFromHandleArgs ==
    /\ pc' = "exit"
    /\ outcome' = "returned"
    /\ UNCHANGED <<hotplug_action, exc, inflight>>

\* sys.exit(1): SystemExit is no Exception, so the except clause of
\* handle_args does not see it and the process exits with status 1.
SysExit1 ==
    /\ pc' = "exit"
    /\ outcome' = "sys_exit"
    /\ UNCHANGED <<hotplug_action, exc, inflight>>

\* An exception leaves the action's function and reaches handle_args'
\* "except Exception" clause.
RaiseToHandleArgs(e) ==
    /\ pc' = "except"
    /\ inflight' = e
    /\ UNCHANGED <<hotplug_action, outcome, exc>>

\* except Exception: LOG.exception(...); raise
ExceptReraise ==
    /\ pc = "except"
    /\ pc' = "exit"
    /\ outcome' = "raised"
    /\ exc' = inflight
    /\ UNCHANGED <<hotplug_action, inflight, printed>>
    /\ UNCHANGED <<dsVars, tryVars, countVars, attemptVars, enableVars, diskVars, ghostVars>>
    /\ UNCHANGED <<seedVars, otherVars>>

\* The exit status of the process.
ExitStatus == IF outcome = "returned" THEN 0 ELSE 1

(* ------------------------ initialize_datasource ------------------------ *)
\* is_enabled: what stages.update_event_enabled answers for the scope of the
\* subsystem; ds.enabled is that answer.
is_enabled(ds) == ds.enabled

\* Mutant: the supported events are not consulted.
initialize_datasource_NoSupportTest(ds) ==
    IF ~is_enabled(ds) THEN NoDatasource ELSE ds

\* Mutant: is_enabled is not consulted.
initialize_datasource_NoEnabledTest(ds) ==
    IF ds.supported = {} THEN NoDatasource ELSE ds

\* None unless the datasource supports HOTPLUG for some scope and the scope
\* of the subsystem is enabled.
initialize_datasource(ds) ==
    IF ds.supported = {} THEN NoDatasource
    ELSE IF ~is_enabled(ds) THEN NoDatasource
    ELSE ds

\* What hotplug_init.fetch(existing="trust") can return: a datasource with
\* some scopes supporting HOTPLUG, for which update_event_enabled answers
\* one way or the other.  Its retry settings are drawn where they are read.
FetchedDatasources ==
    {[NoDatasource EXCEPT !.is_none = FALSE, !.supported = s, !.enabled = e] :
        s \in SUBSET EventScopes, e \in BOOLEAN}

(* ------------------------------- query -------------------------------- *)
\* handle_args, hotplug_action == "query"
Query ==
    /\ pc = "query"
    /\ \E got \in BOOLEAN, ds \in FetchedDatasources :
         IF ~got
         THEN \* fetch raises DataSourceNotFoundException
              /\ printed' = "Unable to determine hotplug state. No datasource detected"
              /\ datasource' = datasource
              /\ fetched' = "raises"
              /\ SysExit1
         ELSE /\ datasource' = ds
              /\ fetched' = "ok"
              /\ printed' = IF ~initialize_datasource(ds).is_none
                            THEN "enabled" ELSE "disabled"
              /\ ReturnFromHandleArgs
    /\ UNCHANGED <<udevaction, tryVars, countVars, attemptVars, enableVars,
                   diskVars, ghostVars>>
    /\ UNCHANGED <<seedVars, otherVars>>

(* --------------------------- UeventHandler ---------------------------- *)
\* Each of the three operators gives "ok" or the exception the method raises.

\* Mutant: the result of update_metadata_if_supported is not tested.
update_metadata_NoCheck(res) ==
    IF res = "raises" THEN "update_metadata_if_supported raised" ELSE "ok"

\* UeventHandler.update_metadata; res is what
\* datasource.update_metadata_if_supported([EventType.HOTPLUG]) did:
\* returned something truthy, returned something falsy, or raised.
update_metadata(res) ==
    IF res = "raises" THEN "update_metadata_if_supported raised"
    ELSE IF res # "truthy" THEN "RuntimeError: Datasource not updated for event hotplug"
    ELSE "ok"

\* NetHandler.device_detected: some interface of the network config has the
\* MAC address of the device.
device_detected(hasDev) == hasDev

\* Mutant: the action is not looked at.
detect_hotplugged_device_AnyAction(action, hasDev) ==
    IF TRUE # device_detected(hasDev)
    THEN "RuntimeError: Failed to detect device in updated metadata"
    ELSE "ok"

\* Mutant: a device that is not detected is not an error.
detect_hotplugged_device_NoRaise(action, hasDev) ==
    IF action # "add" THEN "ValueError: Unknown action" ELSE "ok"

\* UeventHandler.detect_hotplugged_device
detect_hotplugged_device(action, hasDev) ==
    IF action # "add" THEN "ValueError: Unknown action"
    ELSE IF TRUE # device_detected(hasDev)
         THEN "RuntimeError: Failed to detect device in updated metadata"
    ELSE "ok"

\* NetHandler.apply; cfg is what distro.apply_network_config did ("ok" or
\* "raises"), up is what activator.bring_up_interface answers.
apply(action, cfg, up) ==
    IF cfg = "raises" THEN "apply_network_config raised"
    ELSE IF action = "add" /\ ~up THEN "RuntimeError: Failed to bring up device"
    ELSE "ok"

(* --------------------------- handle_hotplug --------------------------- *)
DataSourceNotFound == [kind |-> "DataSourceNotFoundException", round |-> 0, attempt |-> 0]

\* handle_hotplug up to the choice between the single call of try_hotplug and
\* the force-retry loop.
HandleHotplug ==
    /\ pc = "handle_hotplug"
    /\ \E got \in BOOLEAN, ds \in FetchedDatasources :
         IF ~got
         THEN /\ RaiseToHandleArgs(DataSourceNotFound)
              /\ fetched' = "raises"
              /\ UNCHANGED <<datasource, udevaction, start>>
         ELSE IF initialize_datasource(ds).is_none
         THEN /\ datasource' = ds
              /\ fetched' = "ok"
              /\ ReturnFromHandleArgs
              /\ UNCHANGED <<udevaction, start>>
         ELSE \E skip \in BOOLEAN, force \in BOOLEAN, act \in UdevActions :
              \E total \in (IF force THEN SleepTotals ELSE {0}),
                 period \in (IF force THEN SleepPeriods ELSE {0}) :
                /\ datasource' = [ds EXCEPT !.skip_hotplug_detect = skip,
                                            !.force_retry = force,
                                            !.sleep_total = total,
                                            !.sleep_period = period]
                /\ udevaction' = act
                /\ fetched' = "ok"
                /\ start' = clock
                /\ pc' = IF ~force THEN "try_hotplug" ELSE "while"
                /\ UNCHANGED <<hotplug_action, outcome, exc, inflight>>
    /\ UNCHANGED <<printed, clock, round, attempt, last_exception, slept, roundSleeps>>
    /\ UNCHANGED <<countVars, attemptVars, enableVars, diskVars, ghostVars>>
    /\ UNCHANGED <<seedVars, otherVars>>

WhileWindow_Inclusive ==
    /\ pc = "while"
    /\ IF clock - start <= datasource.sleep_total
       THEN /\ pc' = "try_hotplug"
            /\ UNCHANGED <<hotplug_action, outcome, exc, inflight>>
       ELSE ReturnFromHandleArgs
    /\ UNCHANGED <<printed, dsVars, tryVars, countVars, attemptVars, enableVars,
                   diskVars, ghostVars>>
    /\ UNCHANGED <<seedVars, otherVars>>

\* while time.time() - start < sleep_total
WhileWindow ==
    /\ pc = "while"
    /\ IF clock - start < datasource.sleep_total
       THEN /\ pc' = "try_hotplug"
            /\ UNCHANGED <<hotplug_action, outcome, exc, inflight>>
       ELSE ReturnFromHandleArgs
    /\ UNCHANGED <<printed, dsVars, tryVars, countVars, attemptVars, enableVars,
                   diskVars, ghostVars>>
    /\ UNCHANGED <<seedVars, otherVars>>

\* time.sleep(sleep_period) after a call of try_hotplug that returned
SleepPeriod ==
    /\ pc = "sleep_period"
    /\ clock' = clock + datasource.sleep_period
    /\ roundSleeps' = roundSleeps + 1
    /\ pc' = "while"
    /\ UNCHANGED <<hotplug_action, outcome, exc, inflight, printed>>
    /\ UNCHANGED <<start, round, attempt, last_exception, slept>>
    /\ UNCHANGED <<dsVars, countVars, attemptVars, enableVars, diskVars, ghostVars>>
    /\ UNCHANGED <<seedVars, otherVars>>

(* ----------------------------- try_hotplug ---------------------------- *)
\* try_hotplug is called: last_exception is the placeholder and the loop
\* starts with the first wait time.
TryHotplug ==
    /\ pc = "try_hotplug"
    /\ round' = round + 1
    /\ attempt' = 1
    /\ last_exception' = Placeholder
    /\ slept' = <<>>
    /\ pc' = "update_metadata"
    /\ UNCHANGED <<hotplug_action, outcome, exc, inflight, printed>>
    /\ UNCHANGED <<clock, start, roundSleeps>>
    /\ UNCHANGED <<dsVars, countVars, attemptVars, enableVars, diskVars, ghostVars>>
    /\ UNCHANGED <<seedVars, otherVars>>

\* Mutant: every failed attempt sleeps the first wait time.
ExceptClause_FirstWait(e) ==
    /\ slept' = Append(slept, wait_times[1])
    /\ clock' = clock + wait_times[1]
    /\ last_exception' = e
    /\ IF attempt < Len(wait_times)
       THEN attempt' = attempt + 1 /\ pc' = "update_metadata"
       ELSE attempt' = attempt /\ pc' = "for_else"
    /\ UNCHANGED <<hotplug_action, outcome, exc, inflight, printed>>
    /\ UNCHANGED <<start, round, roundSleeps>>

\* Mutant: last_exception keeps the first exception caught.
ExceptClause_KeepFirst(e) ==
    /\ slept' = Append(slept, wait_times[attempt])
    /\ clock' = clock + wait_times[attempt]
    /\ last_exception' = IF last_exception = Placeholder THEN e ELSE last_exception
    /\ IF attempt < Len(wait_times)
       THEN attempt' = attempt + 1 /\ pc' = "update_metadata"
       ELSE attempt' = attempt /\ pc' = "for_else"
    /\ UNCHANGED <<hotplug_action, outcome, exc, inflight, printed>>
    /\ UNCHANGED <<start, round, roundSleeps>>

ExceptClause_FourAttempts(e) ==
    /\ slept' = Append(slept, wait_times[attempt])
    /\ clock' = clock + wait_times[attempt]
    /\ last_exception' = e
    /\ IF attempt < Len(wait_times) - 1
       THEN attempt' = attempt + 1 /\ pc' = "update_metadata"
       ELSE attempt' = attempt /\ pc' = "for_else"
    /\ UNCHANGED <<hotplug_action, outcome, exc, inflight, printed>>
    /\ UNCHANGED <<start, round, roundSleeps>>

\* except Exception as e: time.sleep(wait); last_exception = e, and then the
\* next wait time, or the else clause of the for loop after the last one.
ExceptClause(e) ==
    /\ slept' = Append(slept, wait_times[attempt])
    /\ clock' = clock + wait_times[attempt]
    /\ last_exception' = e
    /\ IF attempt < Len(wait_times)
       THEN attempt' = attempt + 1 /\ pc' = "update_metadata"
       ELSE attempt' = attempt /\ pc' = "for_else"
    /\ UNCHANGED <<hotplug_action, outcome, exc, inflight, printed>>
    /\ UNCHANGED <<start, round, roundSleeps>>

\* Mutant: no break after success(): the loop goes on to the next wait time.
Break_Missing ==
    /\ IF attempt < Len(wait_times)
       THEN attempt' = attempt + 1 /\ pc' = "update_metadata"
       ELSE attempt' = attempt /\ pc' = "for_else"
    /\ UNCHANGED <<hotplug_action, outcome, exc, inflight, printed>>
    /\ UNCHANGED <<clock, start, round, last_exception, slept, roundSleeps>>

\* Mutant: handle_hotplug returns after the first call of try_hotplug in the
\* force-retry loop too.
Break_AlwaysReturn ==
    /\ ReturnFromHandleArgs
    /\ UNCHANGED <<printed, tryVars>>

\* break: try_hotplug returns to handle_hotplug, which returns (single call)
\* or goes on to sleep for sleep_period (force-retry loop).
Break ==
    /\ IF ~datasource.force_retry
       THEN ReturnFromHandleArgs
       ELSE /\ pc' = "sleep_period"
            /\ UNCHANGED <<hotplug_action, outcome, exc, inflight>>
    /\ UNCHANGED <<printed, tryVars>>

\* event_handler.update_metadata()
UpdateMetadata ==
    /\ pc = "update_metadata"
    /\ nRefresh' = nRefresh + 1
    /\ \E res \in {"truthy", "falsy", "raises"}, present \in BOOLEAN :
         LET r == update_metadata(res) IN
         /\ att' = [steps |-> <<"update_metadata">>, refresh |-> res,
                    found |-> FALSE, applied |-> FALSE]
         /\ netcfgHasDev' = IF res = "truthy" THEN present ELSE netcfgHasDev
         /\ everPresent' = (everPresent \/ (res = "truthy" /\ present))
         /\ IF r = "ok"
            THEN /\ pc' = IF ~datasource.skip_hotplug_detect
                          THEN "detect_hotplugged_device" ELSE "apply"
                 /\ UNCHANGED <<hotplug_action, outcome, exc, inflight, printed>>
                 /\ UNCHANGED <<tryVars, lastRaised>>
            ELSE /\ lastRaised' = Exc(r)
                 /\ ExceptClause(Exc(r))
    /\ UNCHANGED <<nDetect, nApply, nSuccess, firstFound, firstDone>>
    /\ UNCHANGED <<dsVars, enableVars, diskVars, ghostVars>>
    /\ UNCHANGED <<seedVars, otherVars>>

\* event_handler.detect_hotplugged_device()
DetectHotpluggedDevice ==
    /\ pc = "detect_hotplugged_device"
    /\ nDetect' = nDetect + 1
    /\ LET r == detect_hotplugged_device(udevaction, netcfgHasDev) IN
         /\ att' = [att EXCEPT !.steps = Append(@, "detect_hotplugged_device"),
                               !.found = (r = "ok")]
         /\ firstFound' = (firstFound \/ (r = "ok" /\ round = 1 /\ attempt = 1))
         /\ IF r = "ok"
            THEN /\ pc' = "apply"
                 /\ UNCHANGED <<hotplug_action, outcome, exc, inflight, printed>>
                 /\ UNCHANGED <<tryVars, lastRaised>>
            ELSE /\ lastRaised' = Exc(r)
                 /\ ExceptClause(Exc(r))
    /\ UNCHANGED <<nRefresh, nApply, nSuccess, netcfgHasDev, everPresent, firstDone>>
    /\ UNCHANGED <<dsVars, enableVars, diskVars, ghostVars>>
    /\ UNCHANGED <<seedVars, otherVars>>

\* event_handler.apply()
Apply ==
    /\ pc = "apply"
    /\ nApply' = nApply + 1
    /\ \E cfg \in {"ok", "raises"}, up \in BOOLEAN :
         LET r == apply(udevaction, cfg, up) IN
         /\ att' = [att EXCEPT !.steps = Append(@, "apply"), !.applied = (r = "ok")]
         /\ IF r = "ok"
            THEN /\ pc' = "success"
                 /\ UNCHANGED <<hotplug_action, outcome, exc, inflight, printed>>
                 /\ UNCHANGED <<tryVars, lastRaised>>
            ELSE /\ lastRaised' = Exc(r)
                 /\ ExceptClause(Exc(r))
    /\ UNCHANGED <<nRefresh, nDetect, nSuccess, netcfgHasDev, everPresent,
                   firstFound, firstDone>>
    /\ UNCHANGED <<dsVars, enableVars, diskVars, ghostVars>>
    /\ UNCHANGED <<seedVars, otherVars>>

\* event_handler.success(), which calls success_fn, and the break after it
Success ==
    /\ pc = "success"
    /\ nSuccess' = nSuccess + 1
    /\ att' = [att EXCEPT !.steps = Append(@, "success")]
    /\ \E ok \in BOOLEAN :
         /\ firstDone' = (firstDone \/ (ok /\ round = 1 /\ attempt = 1))
         /\ IF ok
            THEN /\ Break
                 /\ UNCHANGED lastRaised
            ELSE /\ lastRaised' = Exc("success_fn raised")
                 /\ ExceptClause(Exc("success_fn raised"))
    /\ UNCHANGED <<nRefresh, nDetect, nApply, netcfgHasDev, everPresent, firstFound>>
    /\ UNCHANGED <<dsVars, enableVars, diskVars, ghostVars>>
    /\ UNCHANGED <<seedVars, otherVars>>

\* for ... else: raise last_exception; nothing in handle_hotplug catches it.
ForElse ==
    /\ pc = "for_else"
    /\ RaiseToHandleArgs(last_exception)
    /\ UNCHANGED <<printed, dsVars, tryVars, countVars, attemptVars, enableVars,
                   diskVars, ghostVars>>
    /\ UNCHANGED <<seedVars, otherVars>>

(* ------------------------------- enable ------------------------------- *)
\* Mutant: no sys.exit(1) for a caller that is not root.
GetUid_NoExit ==
    /\ pc = "getuid"
    /\ \E u \in Uids :
         /\ uid' = u
         /\ pc' = "enable_hotplug"
         /\ UNCHANGED <<hotplug_action, outcome, exc, inflight>>
    /\ UNCHANGED <<hotplug_enabled_file, result, nWrites, nInstalls>>
    /\ UNCHANGED <<printed, dsVars, tryVars, countVars, attemptVars, diskVars, ghostVars>>
    /\ UNCHANGED <<seedVars, otherVars>>

\* handle_args, the else branch: if os.getuid() != 0: sys.exit(1)
GetUid ==
    /\ pc = "getuid"
    /\ \E u \in Uids :
         /\ uid' = u
         /\ IF u # 0
            THEN SysExit1
            ELSE /\ pc' = "enable_hotplug"
                 /\ UNCHANGED <<hotplug_action, outcome, exc, inflight>>
    /\ UNCHANGED <<hotplug_enabled_file, result, nWrites, nInstalls>>
    /\ UNCHANGED <<printed, dsVars, tryVars, countVars, attemptVars, diskVars, ghostVars>>
    /\ UNCHANGED <<seedVars, otherVars>>

\* enable_hotplug returned False: handle_args calls sys.exit(1)
ReturnFalse ==
    /\ result' = "False"
    /\ SysExit1
    /\ UNCHANGED printed

\* enable_hotplug returned True: handle_args prints and returns
ReturnTrue ==
    /\ result' = "True"
    /\ printed' = "Enabled cloud-init hotplug for subsystem=net"
    /\ ReturnFromHandleArgs

\* Mutant: support of HOTPLUG for any scope counts.
hotplug_supported_AnyScope(ds) == ds.supported # {}

\* hotplug_supported of enable_hotplug
hotplug_supported(ds) == SUBSYSTEM_PROPERTIES_MAP[subsystem].scope \in ds.supported

\* enable_hotplug up to the hotplug_supported test
EnableHotplug ==
    /\ pc = "enable_hotplug"
    /\ \E fetch \in {"ok", "none", "raises"}, ds \in FetchedDatasources :
         CASE fetch = "raises" ->
                /\ fetched' = fetch
                /\ RaiseToHandleArgs(DataSourceNotFound)
                /\ UNCHANGED <<datasource, result, printed>>
           [] fetch = "none" ->
                /\ fetched' = fetch
                /\ ReturnFalse
                /\ UNCHANGED datasource
           [] fetch = "ok" ->
                /\ fetched' = fetch
                /\ datasource' = ds
                /\ IF ~hotplug_supported(ds)
                   THEN ReturnFalse
                   ELSE /\ pc' = "read_hotplug_enabled_file"
                        /\ UNCHANGED <<hotplug_action, outcome, exc, inflight>>
                        /\ UNCHANGED <<result, printed>>
    /\ UNCHANGED <<uid, hotplug_enabled_file, nWrites, nInstalls>>
    /\ UNCHANGED <<udevaction, tryVars, countVars, attemptVars, diskVars, ghostVars>>
    /\ UNCHANGED <<seedVars, otherVars>>

\* Mutant: the "already done" test never succeeds.
AlreadyDone_Never(scopes, scope) == FALSE

\* Mutant: the scopes read from the file are dropped.
AppendScope_Overwrite(scopes, scope) == <<scope>>

\* if scope.value in hotplug_enabled_file["scopes"]
AlreadyDone(scopes, scope) == scope \in InRange(scopes)

\* hotplug_enabled_file["scopes"].append(scope.value)
AppendScope(scopes, scope) == Append(scopes, scope)

\* util.read_hotplug_enabled_file, the "already done" test and the append
ReadHotplugEnabledFile ==
    /\ pc = "read_hotplug_enabled_file"
    /\ LET scope == SUBSYSTEM_PROPERTIES_MAP[subsystem].scope IN
         IF AlreadyDone(scopesOnDisk, scope)
         THEN /\ hotplug_enabled_file' = scopesOnDisk
              /\ ReturnTrue
         ELSE /\ hotplug_enabled_file' = AppendScope(scopesOnDisk, scope)
              /\ pc' = "write_file"
              /\ UNCHANGED <<hotplug_action, outcome, exc, inflight>>
              /\ UNCHANGED <<result, printed>>
    /\ UNCHANGED <<uid, nWrites, nInstalls>>
    /\ UNCHANGED <<dsVars, tryVars, countVars, attemptVars, diskVars, ghostVars>>
    /\ UNCHANGED <<seedVars, otherVars>>

\* util.write_file(hotplug.enabled, json.dumps(hotplug_enabled_file)); a
\* write that raises leaves the file as it was.
WriteFile ==
    /\ pc = "write_file"
    /\ nWrites' = nWrites + 1
    /\ \E ok \in BOOLEAN :
         IF ok
         THEN /\ scopesOnDisk' = hotplug_enabled_file
              /\ pc' = "install_hotplug"
              /\ UNCHANGED <<hotplug_action, outcome, exc, inflight>>
         ELSE /\ UNCHANGED scopesOnDisk
              /\ RaiseToHandleArgs([kind |-> "write_file raised", round |-> 0, attempt |-> 0])
    /\ UNCHANGED <<uid, hotplug_enabled_file, result, nInstalls, installed, printed>>
    /\ UNCHANGED <<dsVars, tryVars, countVars, attemptVars, ghostVars>>
    /\ UNCHANGED <<seedVars, otherVars>>

\* install_hotplug(datasource, network_hotplug_enabled=True, cfg=...)
InstallHotplug ==
    /\ pc = "install_hotplug"
    /\ nInstalls' = nInstalls + 1
    /\ \E ok \in BOOLEAN :
         IF ok
         THEN /\ installed' = TRUE
              /\ ReturnTrue
         ELSE /\ UNCHANGED <<installed, result, printed>>
              /\ RaiseToHandleArgs([kind |-> "install_hotplug raised", round |-> 0, attempt |-> 0])
    /\ UNCHANGED <<uid, hotplug_enabled_file, nWrites, scopesOnDisk>>
    /\ UNCHANGED <<dsVars, tryVars, countVars, attemptVars, ghostVars>>
    /\ UNCHANGED <<seedVars, otherVars>>

(* ---------------------------- specification --------------------------- *)
Next ==
    \/ HandleArgs
    \/ Query
    \/ HandleHotplug
    \/ WhileWindow
    \/ SleepPeriod
    \/ TryHotplug
    \/ UpdateMetadata
    \/ DetectHotpluggedDevice
    \/ Apply
    \/ Success
    \/ ForElse
    \/ ExceptReraise
    \/ GetUid
    \/ EnableHotplug
    \/ ReadHotplugEnabledFile
    \/ WriteFile
    \/ InstallHotplug

Spec == Init /\ [][Next]_vars

(* ======================================================================= *)
(* Properties                                                              *)
(* ======================================================================= *)
AttemptPcs == {"update_metadata", "detect_hotplugged_device", "apply", "success"}

\* handle_hotplug got a datasource from initialize_datasource and has called
\* try_hotplug at least once.
Handling == hotplug_action = "handle" /\ round >= 1

\* An attempt of try_hotplug raises in this step.
AttemptFails == pc \in AttemptPcs /\ lastRaised' # lastRaised

\* C1 (as stated): handle_hotplug without force-retry, for an "add" event
\* whose device is in the network config after no metadata refresh, ends by
\* raising, after 5 attempts.
C1_Original ==
    (/\ Handling
     /\ pc = "exit"
     /\ ~datasource.force_retry
     /\ udevaction = "add"
     /\ ~everPresent)
    => (outcome = "raised" /\ attempt = 5 /\ nRefresh = 5 /\ Len(slept) = 5)

\* C1 (amended): the same, for a datasource that does not set
\* skip_hotplug_detect: the call ends by raising, and has then made all 5
\* attempts.
C1_NotFoundRaisesAfterFive ==
    (/\ Handling
     /\ pc = "exit"
     /\ ~datasource.force_retry
     /\ ~datasource.skip_hotplug_detect
     /\ udevaction = "add"
     /\ ~everPresent)
    => (outcome = "raised" /\ attempt = 5 /\ nRefresh = 5 /\ Len(slept) = 5)

\* The device was looked for after 5 refreshes and was in none of them.
C1_Witness ==
    /\ Handling
    /\ pc = "exit"
    /\ ~datasource.force_retry
    /\ ~datasource.skip_hotplug_detect
    /\ udevaction = "add"
    /\ ~everPresent
    /\ nDetect = 5
    /\ outcome = "raised"
    /\ exc.kind = "RuntimeError: Failed to detect device in updated metadata"

\* C2 (as stated): when the first attempt finds the device in the refreshed
\* metadata, handle_hotplug returns normally and success_fn has been called
\* exactly once.
C2_Original ==
    (Handling /\ pc = "exit" /\ firstFound)
    => (outcome = "returned" /\ nSuccess = 1)

\* C2 (amended): without force-retry, when the first attempt finds the
\* device and its apply and success_fn do not raise, handle_hotplug returns
\* normally and success_fn has been called exactly once.
C2_FirstAttemptSucceedsOnce ==
    (Handling /\ pc = "exit" /\ ~datasource.force_retry /\ firstFound /\ firstDone)
    => (outcome = "returned" /\ nSuccess = 1 /\ nRefresh = 1 /\ nApply = 1)

C2_Witness ==
    /\ Handling
    /\ pc = "exit"
    /\ ~datasource.force_retry
    /\ firstFound
    /\ firstDone
    /\ outcome = "returned"
    /\ nSuccess = 1

\* C3: an exception raised by any step of attempt k is caught and followed
\* by a sleep of wait_times[k] before attempt k+1 (after the fifth, before
\* the else clause); attempts are numbered 1..5 and the sleeps of one call
\* are a prefix of [1,3,5,10,30]; a successful attempt sleeps nothing.
C3_Backoff ==
    [][/\ AttemptFails =>
            /\ slept' = Append(slept, wait_times[attempt])
            /\ clock' = clock + wait_times[attempt]
            /\ last_exception' = lastRaised'
            /\ attempt < 5 => (pc' = "update_metadata" /\ attempt' = attempt + 1)
            /\ attempt = 5 => pc' = "for_else"
       /\ (pc \in AttemptPcs /\ ~AttemptFails) => (slept' = slept /\ clock' = clock)
       /\ round' >= 1 =>
            /\ attempt' \in 1..5
            /\ slept' = SubSeq(wait_times, 1, Len(slept'))
            /\ Len(slept') \in {attempt' - 1, attempt'}
      ]_vars

\* The fifth attempt succeeded after four that failed, one of them in
\* success_fn: the four sleeps were made.
C3_Witness ==
    /\ Handling
    /\ pc = "exit"
    /\ outcome = "returned"
    /\ slept = <<1, 3, 5, 10>>
    /\ clock = 19
    /\ nSuccess >= 2
    /\ nDetect > nApply

\* C4: when all 5 attempts of a call of try_hotplug have failed, the
\* exception that reaches handle_args' except clause, and then leaves
\* handle_args, is the one the fifth attempt raised.
C4_LastExceptionReraised ==
    (Handling /\ Len(slept) = 5)
    => /\ pc \in {"for_else", "except", "exit"}
       /\ lastRaised.attempt = 5
       /\ lastRaised.round = round
       /\ pc = "for_else" => last_exception = lastRaised
       /\ pc = "except" => inflight = lastRaised
       /\ pc = "exit" => (outcome = "raised" /\ exc = lastRaised)

\* Five attempts failed, not all for the same reason, and the process has
\* ended with the exception of the fifth.
C4_Witness ==
    /\ Handling
    /\ pc = "exit"
    /\ outcome = "raised"
    /\ Len(slept) = 5
    /\ nApply \in 1..4
    /\ exc.kind = "RuntimeError: Failed to bring up device"
    /\ exc.attempt = 5

\* The order of the steps of an attempt on the datasource in use.
StepOrder ==
    IF datasource.skip_hotplug_detect
    THEN <<"update_metadata", "apply", "success">>
    ELSE <<"update_metadata", "detect_hotplugged_device", "apply", "success">>

\* C5: the steps of an attempt run in the order refresh, detect (unless
\* skip_hotplug_detect), apply, success; success_fn is called only after a
\* truthy refresh, a detection that found the device (unless skipped) and
\* an apply that did not raise, all in this attempt; after a refresh that
\* was not truthy the attempt runs no further step.
C5_StepOrder ==
    [][/\ round' >= 1 =>
            /\ Len(att'.steps) <= Len(StepOrder')
            /\ att'.steps = SubSeq(StepOrder', 1, Len(att'.steps))
            /\ att'.refresh # "truthy" => Len(att'.steps) <= 1
       /\ nDetect' > nDetect =>
            /\ att.steps = <<"update_metadata">>
            /\ att.refresh = "truthy"
            /\ ~datasource.skip_hotplug_detect
       /\ nApply' > nApply =>
            /\ att.refresh = "truthy"
            /\ datasource.skip_hotplug_detect \/ att.found
            /\ ~att.applied
       /\ nSuccess' > nSuccess =>
            /\ nSuccess' = nSuccess + 1
            /\ att.refresh = "truthy"
            /\ datasource.skip_hotplug_detect \/ att.found
            /\ att.applied
            /\ att.steps = SubSeq(StepOrder, 1, Len(StepOrder) - 1)
      ]_vars

\* After an attempt that a falsy refresh ended, an attempt ran all four
\* steps and success_fn was called.
C5_Witness ==
    /\ Handling
    /\ ~datasource.skip_hotplug_detect
    /\ lastRaised.kind = "RuntimeError: Datasource not updated for event hotplug"
    /\ att.steps = <<"update_metadata", "detect_hotplugged_device", "apply", "success">>
    /\ nSuccess = 1
    /\ nRefresh = 2
    /\ nDetect = 1

\* C6: if the datasource reports no supported HOTPLUG event, or the scope
\* of the subsystem is not enabled, handle_hotplug returns without raising,
\* and has not refreshed metadata, detected, applied, slept or called
\* success_fn.
C6_IgnoredEvent ==
    (/\ hotplug_action = "handle"
     /\ ~datasource.is_none
     /\ (datasource.supported = {} \/ ~datasource.enabled))
    => /\ pc = "exit"
       /\ outcome = "returned"
       /\ ExitStatus = 0
       /\ round = 0
       /\ nRefresh = 0 /\ nDetect = 0 /\ nApply = 0 /\ nSuccess = 0
       /\ clock = 0 /\ slept = <<>> /\ roundSleeps = 0

\* An event on a datasource that supports HOTPLUG for the scope, which is
\* not enabled.
C6_Witness ==
    /\ hotplug_action = "handle"
    /\ pc = "exit"
    /\ datasource.supported = {NETWORK}
    /\ ~datasource.enabled
    /\ outcome = "returned"

\* C7 (as stated): with force_retry, handle_hotplug does not end by raising
\* before sleep_total has elapsed since start.
C7_Original ==
    (Handling /\ datasource.force_retry /\ pc = "exit" /\ outcome = "raised")
    => clock - start >= datasource.sleep_total

\* C7 (amended): with force_retry, handle_hotplug calls try_hotplug, each
\* call the 5-attempt loop, and sleeps sleep_period after each call that
\* returns, while less than sleep_total has elapsed since start: it returns
\* normally only when sleep_total has elapsed, one sleep_period after every
\* call; it raises, within the window or not, exactly when the 5 attempts of
\* one call have all failed.
C7_ForceRetryWindow ==
    (hotplug_action = "handle" /\ datasource.force_retry)
    => /\ (pc = "exit" /\ outcome = "returned") =>
            /\ clock - start >= datasource.sleep_total
            /\ roundSleeps = round
            /\ Len(slept) < 5
       /\ (pc = "exit" /\ outcome = "raised") =>
            /\ Len(slept) = 5
            /\ exc = lastRaised
            /\ roundSleeps = round - 1
       /\ pc = "try_hotplug" => clock - start < datasource.sleep_total
       /\ Len(slept) = 5 => pc \in {"for_else", "except", "exit"}
       /\ roundSleeps \in {round - 1, round}

\* A second call of try_hotplug was made inside the window, attempts of it
\* failed, and the handling went on to the end of the window.
C7_Witness ==
    /\ hotplug_action = "handle"
    /\ datasource.force_retry
    /\ pc = "exit"
    /\ outcome = "returned"
    /\ round = 2
    /\ Len(slept) = 4
    /\ clock - start >= datasource.sleep_total
    /\ datasource.sleep_total = MaxSleepTotal

\* How many times scope x is listed in the scopes list s.
Count(s, x) == Cardinality({i \in DOMAIN s : s[i] = x})

\* C8: when enable_hotplug runs right after a process whose enable_hotplug
\* returned True, on a datasource that supports hotplug for the scope, it
\* returns True, the file is as the first call left it (not written, the
\* scope listed once) and install_hotplug is not called.
C8_SecondEnableNoOp ==
    (/\ hotplug_action = "enable"
     /\ prev = "enabled"
     /\ ~datasource.is_none
     /\ hotplug_supported(datasource))
    => /\ nWrites = 0
       /\ nInstalls = 0
       /\ scopesOnDisk = fileAtStart
       /\ Count(scopesOnDisk, NETWORK) = 1
       /\ pc \in {"read_hotplug_enabled_file", "exit"}
       /\ pc = "exit" => (result = "True" /\ outcome = "returned" /\ ExitStatus = 0)

\* The first call wrote the file and installed; the second has returned.
C8_Witness ==
    /\ hotplug_action = "enable"
    /\ prev = "enabled"
    /\ pc = "exit"
    /\ result = "True"
    /\ installed
    /\ nInstalls = 0
    /\ scopesOnDisk = <<"other", NETWORK>>

\* C9: no step removes a scope from the persisted state, and the only step
\* that changes the file is the write of an enable.
C9_ScopesOnlyGrow ==
    [][/\ InRange(scopesOnDisk) \subseteq InRange(scopesOnDisk')
       /\ scopesOnDisk' # scopesOnDisk =>
            (hotplug_action = "enable" /\ pc = "write_file" /\ nWrites' = nWrites + 1)
       /\ hotplug_action' \in {"query", "handle"} => scopesOnDisk' = fileAtStart'
      ]_vars

\* A handle that ran to success after an enable that added the scope to a
\* file that listed another.
C9_Witness ==
    /\ hotplug_action = "handle"
    /\ pc = "exit"
    /\ nSuccess = 1
    /\ scopesOnDisk = <<"other", NETWORK>>
    /\ fileAtStart = scopesOnDisk

\* C10: an enable by a caller whose uid is not 0 exits with a non-zero
\* status before enable_hotplug runs: no datasource is fetched, the file is
\* not written and install_hotplug is not called.
C10_NonRootRejected ==
    (hotplug_action = "enable" /\ uid # 0)
    => /\ pc = "exit"
       /\ outcome = "sys_exit"
       /\ ExitStatus # 0
       /\ datasource.is_none
       /\ result = None
       /\ hotplug_enabled_file = <<>>
       /\ nWrites = 0
       /\ nInstalls = 0
       /\ scopesOnDisk = fileAtStart

C10_Witness ==
    /\ hotplug_action = "enable"
    /\ uid # 0
    /\ pc = "exit"
    /\ outcome = "sys_exit"
    /\ NETWORK \notin InRange(scopesOnDisk)

\* C11: a query writes no hotplug.enabled, calls no installer, refreshes no
\* metadata, applies nothing and calls no success_fn, and ends in one of
\* three ways: it prints "enabled" exactly when a datasource is fetched that
\* supports HOTPLUG and for which the scope is enabled, "disabled" for any
\* other datasource fetched, both with exit status 0; and when fetch raises
\* DataSourceNotFoundException it prints a message of its own and exits
\* with status 1.
C11_QueryPureRead ==
    hotplug_action = "query"
    => /\ nWrites = 0 /\ nInstalls = 0
       /\ nRefresh = 0 /\ nDetect = 0 /\ nApply = 0 /\ nSuccess = 0
       /\ scopesOnDisk = fileAtStart
       /\ pc \in {"query", "exit"}
       /\ pc = "exit" =>
            \/ /\ fetched = "ok"
               /\ datasource.supported # {} /\ datasource.enabled
               /\ printed = "enabled"
               /\ outcome = "returned" /\ ExitStatus = 0
            \/ /\ fetched = "ok"
               /\ ~(datasource.supported # {} /\ datasource.enabled)
               /\ printed = "disabled"
               /\ outcome = "returned" /\ ExitStatus = 0
            \/ /\ fetched = "raises"
               /\ printed \notin {"enabled", "disabled", ""}
               /\ outcome = "sys_exit" /\ ExitStatus = 1

\* A query that answers "disabled" for a datasource that supports HOTPLUG,
\* with the scope listed in hotplug.enabled by an earlier enable.
C11_Witness ==
    /\ hotplug_action = "query"
    /\ pc = "exit"
    /\ printed = "disabled"
    /\ datasource.supported = {NETWORK}
    /\ NETWORK \in InRange(scopesOnDisk)
    /\ installed

\* C12: when fetch returns no datasource, or the datasource does not
\* support HOTPLUG for the scope of the subsystem, enable_hotplug returns
\* False (exit status 1) and has not read or written hotplug.enabled nor
\* called install_hotplug.
C12_EnableUnsupported ==
    (/\ hotplug_action = "enable"
     /\ \/ fetched = "none"
        \/ fetched = "ok" /\ NETWORK \notin datasource.supported)
    => /\ pc = "exit"
       /\ result = "False"
       /\ outcome = "sys_exit"
       /\ ExitStatus = 1
       /\ hotplug_enabled_file = <<>>
       /\ nWrites = 0
       /\ nInstalls = 0
       /\ scopesOnDisk = fileAtStart

\* The datasource supports HOTPLUG, for another scope only.
C12_Witness ==
    /\ hotplug_action = "enable"
    /\ pc = "exit"
    /\ fetched = "ok"
    /\ datasource.supported = {"other"}
    /\ result = "False"
    /\ NETWORK \notin InRange(scopesOnDisk)

(* ======================================================================= *)
(* The NoCloud datasource: cloudinit/sources/DataSourceNoCloud.py          *)
(* ======================================================================= *)
(* A string that _get_data looks into is written as the tuple of its       *)
(* parts: a seedfrom URL is <<prefix, rest>>, where prefix is the one of    *)
(* the prefixes the code tests with startswith that the string begins      *)
(* with; any other string is <<text>>, and "" is <<>>.  A dictionary is a   *)
(* function from its keys; an absent key is not in its DOMAIN.             *)

LocalProtos == {"/", "file://"}
NetProtos == {"http://", "https://", "ftp://", "ftps://"}

\* str.startswith(protos)
startswith(s, protos) == Len(s) > 0 /\ s[1] \in protos

\* dict[k] = v
Put(d, k, v) == (k :> v) @@ d

\* dict.get(k)
Get(d, k) == IF k \in DOMAIN d THEN d[k] ELSE NoneT

\* the truth value of a string or None
Truthy(v) == v # <<>> /\ v # NoneT

(* ------------------------- the kernel command line -------------------- *)
\* A command line is the sequence of its tokens; a token is what stands
\* before its first ";" and the key=value items after it.
Item(k, v) == [k |-> k, v |-> v]
Tok(id, items) == [id |-> id, items |-> items]

\* tok.startswith(ds_id), for the two ds_id of load_cmdline_data
TokStartsWith(id, ds_id) ==
    \/ id = ds_id
    \/ ds_id = "ds=nocloud" /\ id = "ds=nocloud-net"

s2l_NoExpand(k) == k

\* parse_cmdline_data: s2l
s2l(k) ==
    CASE k = "h" -> "local-hostname"
      [] k = "i" -> "instance-id"
      [] k = "s" -> "seedfrom"
      [] OTHER -> k

\* parse_cmdline_data: the loop over kvpairs
RECURSIVE FillItems(_, _)
FillItems(fill, kvpairs) ==
    IF kvpairs = <<>> THEN fill
    ELSE FillItems(Put(fill, s2l(Head(kvpairs).k), Head(kvpairs).v), Tail(kvpairs))

parse_cmdline_data(ds_id, fill, cmdline) ==
    IF ~\E i \in DOMAIN cmdline : cmdline[i].id = ds_id
    THEN [ok |-> FALSE, fill |-> fill]
    ELSE LET last == CHOOSE i \in DOMAIN cmdline :
                        /\ TokStartsWith(cmdline[i].id, ds_id)
                        /\ \A j \in DOMAIN cmdline :
                              TokStartsWith(cmdline[j].id, ds_id) => j <= i
         IN [ok |-> TRUE, fill |-> FillItems(fill, cmdline[last].items)]

\* load_cmdline_data: pairs
pairs == << <<"ds=nocloud", DSMODE_LOCAL>>, <<"ds=nocloud-net", DSMODE_NETWORK>> >>

WithDsmode_IgnoreSeedfrom(fill, default) ==
    IF "dsmode" \in DOMAIN fill THEN fill
    ELSE Put(fill, "dsmode", default)

\* load_cmdline_data: what one round of the loop does once the token parsed
WithDsmode(fill, default) ==
    IF "dsmode" \in DOMAIN fill THEN fill
    ELSE IF Truthy(Get(fill, "seedfrom"))
         THEN IF startswith(fill["seedfrom"], NetProtos)
              THEN Put(fill, "dsmode", DSMODE_NETWORK)
              ELSE IF startswith(fill["seedfrom"], LocalProtos)
                   THEN Put(fill, "dsmode", DSMODE_LOCAL)
                   ELSE fill
         ELSE Put(fill, "dsmode", default)

RECURSIVE LoadFrom(_, _, _)
LoadFrom(n, fill, cmdline) ==
    IF n > Len(pairs) THEN [ok |-> FALSE, fill |-> fill]
    ELSE LET p == parse_cmdline_data(pairs[n][1], fill, cmdline)
         IN IF ~p.ok THEN LoadFrom(n + 1, fill, cmdline)
            ELSE [ok |-> TRUE, fill |-> WithDsmode(p.fill, pairs[n][2])]

load_cmdline_data(fill, cmdline) == LoadFrom(1, fill, cmdline)

(* ------------------------------ merging ------------------------------- *)
mergemanydict_Replace(a, b) == b

\* util.mergemanydict([a, b]): a key that a already has keeps a's value
\* ("Values in the command line override those from the seed"; the
\* defaults are merged last and only fill in).
mergemanydict(a, b) == a @@ b

\* A text file: empty, or a YAML document with the value it loads to.
EmptyText == [empty |-> TRUE]
Yaml(v) == [empty |-> FALSE, yaml |-> v]

\* util.load_yaml
load_yaml(text) == text.yaml

\* The meta-data of a seed: a dictionary (isinstance(..., dict)) or a text.
Dict(d) == [isdict |-> TRUE, dict |-> d]
MdText(d) == [isdict |-> FALSE, empty |-> FALSE, bad |-> FALSE, yaml |-> d]
\* A meta-data text that is no YAML: it loads to None, which mergemanydict
\* skips as it skips {}.
Unparsable == [isdict |-> FALSE, empty |-> FALSE, bad |-> TRUE, yaml |-> EmptyDict]

_merge_new_seed_NewFirst(cur, seeded) ==
    LET newmd == IF seeded["meta-data"].isdict
                 THEN seeded["meta-data"].dict
                 ELSE load_yaml(seeded["meta-data"])
        md == mergemanydict(newmd, cur["meta-data"])
        nc == IF "network-config" \in DOMAIN seeded /\ ~seeded["network-config"].empty
              THEN load_yaml(seeded["network-config"])
              ELSE cur["network-config"]
        ud == IF "user-data" \in DOMAIN seeded THEN seeded["user-data"]
              ELSE cur["user-data"]
        vd == IF "vendor-data" \in DOMAIN seeded THEN seeded["vendor-data"]
              ELSE cur["vendor-data"]
    IN [k \in DOMAIN cur |->
          CASE k = "meta-data" -> md
            [] k = "network-config" -> nc
            [] k = "user-data" -> ud
            [] k = "vendor-data" -> vd]

_merge_new_seed_KeepNonEmpty(cur, seeded) ==
    LET newmd == IF seeded["meta-data"].isdict
                 THEN seeded["meta-data"].dict
                 ELSE load_yaml(seeded["meta-data"])
        md == mergemanydict(cur["meta-data"], newmd)
        nc == IF "network-config" \in DOMAIN seeded /\ ~seeded["network-config"].empty
              THEN load_yaml(seeded["network-config"])
              ELSE cur["network-config"]
        ud == IF "user-data" \in DOMAIN seeded /\ seeded["user-data"] # "" THEN seeded["user-data"]
              ELSE cur["user-data"]
        vd == IF "vendor-data" \in DOMAIN seeded THEN seeded["vendor-data"]
              ELSE cur["vendor-data"]
    IN [k \in DOMAIN cur |->
          CASE k = "meta-data" -> md
            [] k = "network-config" -> nc
            [] k = "user-data" -> ud
            [] k = "vendor-data" -> vd]

_merge_new_seed(cur, seeded) ==
    LET newmd == IF seeded["meta-data"].isdict
                 THEN seeded["meta-data"].dict
                 ELSE load_yaml(seeded["meta-data"])
        md == mergemanydict(cur["meta-data"], newmd)
        nc == IF "network-config" \in DOMAIN seeded /\ ~seeded["network-config"].empty
              THEN load_yaml(seeded["network-config"])
              ELSE cur["network-config"]
        ud == IF "user-data" \in DOMAIN seeded THEN seeded["user-data"]
              ELSE cur["user-data"]
        vd == IF "vendor-data" \in DOMAIN seeded THEN seeded["vendor-data"]
              ELSE cur["vendor-data"]
    IN [k \in DOMAIN cur |->
          CASE k = "meta-data" -> md
            [] k = "network-config" -> nc
            [] k = "user-data" -> ud
            [] k = "vendor-data" -> vd]

\* sources.DataSource._determine_dsmode([candidate]): the candidate when it
\* is a valid mode, the datasource's own mode when it is None or invalid
VALID_DSMODES == {DSMODE_DISABLED, DSMODE_LOCAL, DSMODE_NETWORK}
_determine_dsmode(candidate, default) ==
    IF candidate \in VALID_DSMODES THEN candidate ELSE default

(* ------------------------ what the sources hold ------------------------ *)
U_http == <<"http://", "host/seed/">>
U_file == <<"file://", "/seed/">>
U_path == <<"/", "seed/">>
U_tftp == <<"tftp://host/seed/">>

\* dmi.read_dmi_data("system-serial-number"): it raises, gives nothing, or
\* gives a string
DmiSerials ==
    { [st |-> "raises"],
      [st |-> "none"],
      [st |-> "ok", toks |-> <<Tok("VMware-42", <<>>)>>],
      [st |-> "ok", toks |-> <<Tok("ds=nocloud",
                                   <<Item("s", U_http), Item("i", <<"iid-dmi">>)>>)>>] }

\* util.get_cmdline()
Cmdlines ==
    { [st |-> "raises"],
      [st |-> "ok", toks |-> <<Tok("ro", <<>>)>>],
      [st |-> "ok", toks |-> <<Tok("ro", <<>>), Tok("ds=nocloud", <<>>)>>],
      [st |-> "ok", toks |-> <<Tok("ds=nocloud",
                                   <<Item("s", U_file), Item("h", <<"myhost">>)>>)>>],
      [st |-> "ok", toks |-> <<Tok("ds=nocloud",
                                   <<Item("i", <<"iid-cmdline">>),
                                     Item("dsmode", DSMODE_DISABLED)>>)>>],
      [st |-> "ok", toks |-> <<Tok("ds=nocloud-net", <<Item("s", U_tftp)>>)>>],
      [st |-> "ok", toks |-> <<Tok("ds=nocloud", <<Item("h", <<"first">>)>>),
                               Tok("ds=nocloud-net", <<Item("s", U_http)>>)>>] }

\* A seed as util.pathprefix2dict returns it: the required files, and the
\* optional ones that exist.
Seeded(md, ud) == ("meta-data" :> md) @@ ("user-data" :> ud)

\* self.seed_dirs
seed_dirs == << <<"/var/lib/cloud/seed/nocloud">>, <<"/var/lib/cloud/seed/nocloud-net">> >>

\* util.pathprefix2dict(path): ValueError when a required file is missing,
\* OSError when a file cannot be read
DirResults ==
    << { [st |-> "ValueError"],
         [st |-> "OSError", errno |-> "EACCES"],
         [st |-> "ok",
          seeded |-> Seeded(MdText(("instance-id" :> <<"iid-dir">>)
                                   @@ ("dsmode" :> DSMODE_DISABLED)), "ud-dir")
                     @@ ("network-config" :> Yaml("net-dir"))] },
       { [st |-> "ValueError"],
         [st |-> "OSError", errno |-> "EACCES"],
         [st |-> "ok",
          seeded |-> Seeded(MdText(("instance-id" :> <<"iid-dirnet">>)
                                   @@ ("network-interfaces" :> <<"eni-dirnet">>)), "")
                     @@ ("vendor-data" :> "vd-dirnet")
                     @@ ("network-config" :> EmptyText)] } >>

\* the datasource's configuration
DsCfgs ==
    { EmptyDict,
      ("seedfrom" :> U_path),
      ("fs_label" :> None),
      Seeded(Dict(("instance-id" :> <<"iid-cfg">>) @@ ("dsmode" :> DSMODE_LOCAL)), "ud-cfg"),
      Seeded(Dict(EmptyDict), "") @@ ("seedfrom" :> U_http) }

\* the block devices, in ascending order of their names
AllDevs == << <<"/dev/sr0">>, <<"/dev/vdb">> >>
Devs == {AllDevs[i] : i \in DOMAIN AllDevs}

\* util.mount_cb(dev, _pp2d_callback, pp2d_kwargs)
MountResults ==
    { [st |-> "ValueError"],
      [st |-> "MountFailedError"],
      [st |-> "OSError", errno |-> "ENOENT"],
      [st |-> "OSError", errno |-> "EIO"],
      [st |-> "ok",
       seeded |-> Seeded(MdText("instance-id" :> <<"iid-vol">>), "ud-vol")
                  @@ ("vendor-data" :> "vd-vol")
                  @@ ("network-config" :> Yaml("net-vol"))],
      [st |-> "ok",
       seeded |-> Seeded(MdText(("seedfrom" :> U_file)
                                @@ ("local-hostname" :> <<"volhost">>)), "")],
      [st |-> "ok", seeded |-> Seeded(Unparsable, "ud-bad")] }

\* util.read_seeded(seedfrom, timeout=None)
ReadSeededResults ==
    { [st |-> "raises"],
      [st |-> "ok", md_seed |-> EmptyDict, ud |-> "", vd |-> None, network |-> None],
      [st |-> "ok",
       md_seed |-> ("instance-id" :> <<"iid-url">>) @@ ("dsmode" :> DSMODE_DISABLED)
                   @@ ("local-hostname" :> <<"urlhost">>),
       ud |-> "ud-url", vd |-> "vd-url", network |-> "net-url"] }

(* ------------------------------ ghosts -------------------------------- *)
Absent == "<absent>"
\* the dsmode of a seed's meta-data is the one written there, if any
HowSeeded(seeded) ==
    IF "dsmode" \in DOMAIN (IF seeded["meta-data"].isdict THEN seeded["meta-data"].dict
                            ELSE load_yaml(seeded["meta-data"]))
    THEN "explicit" ELSE "none"

\* the dsmode of a parsed token: written in the token ("explicit"), or put
\* there by load_cmdline_data from the token's seedfrom ("seedfrom") or
\* from the token's name ("default"), or not at all ("none")
RECURSIVE Parsed(_, _)
Parsed(n, cmdline) ==
    IF n > Len(pairs) THEN EmptyDict
    ELSE IF parse_cmdline_data(pairs[n][1], EmptyDict, cmdline).ok
         THEN parse_cmdline_data(pairs[n][1], EmptyDict, cmdline).fill
         ELSE Parsed(n + 1, cmdline)

HowToken(cmdline) ==
    LET fill == Parsed(1, cmdline)
    IN IF "dsmode" \in DOMAIN fill THEN "explicit"
       ELSE IF "seedfrom" \notin DOMAIN fill THEN "default"
       ELSE IF startswith(fill["seedfrom"], NetProtos \cup LocalProtos) THEN "seedfrom"
       ELSE "none"

\* what a merged source supplied: its metadata and how its dsmode came
\* about, and its user-data, vendor-data and network-config (Absent when it
\* has none; "" is an empty one)
Contrib(src, seeded, how) ==
    [src |-> src,
     how |-> how,
     md |-> IF seeded["meta-data"].isdict THEN seeded["meta-data"].dict
            ELSE load_yaml(seeded["meta-data"]),
     ud |-> IF "user-data" \in DOMAIN seeded THEN seeded["user-data"] ELSE Absent,
     vd |-> IF "vendor-data" \in DOMAIN seeded THEN seeded["vendor-data"] ELSE Absent,
     nc |-> IF "network-config" \notin DOMAIN seeded THEN Absent
            ELSE IF seeded["network-config"].empty THEN ""
            ELSE load_yaml(seeded["network-config"])]

(* ------------------------------ _get_data ------------------------------ *)
\* DataSourceNoCloud.__init__ or DataSourceNoCloudNet.__init__, and the
\* first statements of _get_data
InitNoCloud ==
    /\ HotplugInit
    /\ scopesOnDisk = <<>>
    /\ NoEnablers
    /\ NoExtraConfigObject
    /\ NoParse
    /\ NoSoftLayerObject
    /\ step = "dmi"
    /\ supported_seed_starts \in {LocalProtos, NetProtos}
    /\ dsmode = DSMODE_NETWORK
    /\ ds_cfg \in DsCfgs
    /\ mydata = EmptyMydata
    /\ found = <<>>
    /\ devlist = <<>>
    /\ seed = NoneT
    /\ metadata = EmptyDict
    /\ userdata_raw = None
    /\ vendordata_raw = None
    /\ network_config = None
    /\ network_eni = NoneT
    /\ ret = None
    /\ contribs = <<>>
    /\ consulted = <<>>
    /\ fetches = <<>>
    /\ tape = <<>>
    /\ pos = 0
    /\ first = [ret |-> None]
    /\ blkid = NoBlkid
    /\ reads = <<>>

\* what the source asked next may answer: anything it can, or, when
\* _get_data runs again over the same source data, what it answered before
DrawAt(p, S) == IF pos = 0 THEN S ELSE {tape[p].r}
Draw(S) == DrawAt(pos, S)

\* the answers go on the tape
TapedSeq(entries) ==
    /\ tape' = IF pos = 0 THEN tape \o entries ELSE tape
    /\ pos' = IF pos = 0 THEN 0 ELSE pos + Len(entries)
    /\ first' = first
Taped(src, r) == TapedSeq(<<[src |-> src, r |-> r]>>)

\* return r, or an exception that leaves _get_data (r = "raised")
Return(r) ==
    /\ step' = "done"
    /\ ret' = r

\* found.append(src); mydata = _merge_new_seed(mydata, seeded)
Merge(src, seeded, how) ==
    /\ found' = Append(found, src)
    /\ mydata' = _merge_new_seed(mydata, seeded)
    /\ contribs' = Append(contribs, Contrib(src, seeded, how))

\* the system serial number, parsed like the command line
ReadDmi ==
    /\ step = "dmi"
    /\ \E serial \in Draw(DmiSerials) :
         /\ consulted' = Append(consulted, <<"dmi">>)
         /\ Taped(<<"dmi">>, serial)
         /\ IF serial.st = "raises"
            THEN /\ Return("False")
                 /\ UNCHANGED <<found, mydata, contribs>>
            ELSE /\ step' = "cmdline"
                 /\ ret' = ret
                 /\ IF serial.st = "ok" /\ load_cmdline_data(EmptyDict, serial.toks).ok
                    THEN Merge(<<"dmi">>,
                               "meta-data" :> Dict(load_cmdline_data(EmptyDict, serial.toks).fill),
                               HowToken(serial.toks))
                    ELSE UNCHANGED <<found, mydata, contribs>>
    /\ UNCHANGED <<objVars, devlist, fetches, hotplugVars, otherVars, sideVars>>

ReadCmdline_GoesOn ==
    /\ step = "cmdline"
    /\ \E cmdline \in Draw(Cmdlines) :
         /\ consulted' = Append(consulted, <<"cmdline">>)
         /\ Taped(<<"cmdline">>, cmdline)
         /\ IF cmdline.st = "raises"
            THEN /\ step' = "seed_dirs"
                 /\ ret' = ret
                 /\ UNCHANGED <<found, mydata, contribs>>
            ELSE /\ step' = "seed_dirs"
                 /\ ret' = ret
                 /\ IF load_cmdline_data(EmptyDict, cmdline.toks).ok
                    THEN Merge(<<"cmdline">>,
                               "meta-data" :> Dict(load_cmdline_data(EmptyDict, cmdline.toks).fill),
                               HowToken(cmdline.toks))
                    ELSE UNCHANGED <<found, mydata, contribs>>
    /\ UNCHANGED <<objVars, devlist, fetches, hotplugVars, otherVars, sideVars>>

\* the kernel command line
ReadCmdline ==
    /\ step = "cmdline"
    /\ \E cmdline \in Draw(Cmdlines) :
         /\ consulted' = Append(consulted, <<"cmdline">>)
         /\ Taped(<<"cmdline">>, cmdline)
         /\ IF cmdline.st = "raises"
            THEN /\ Return("False")
                 /\ UNCHANGED <<found, mydata, contribs>>
            ELSE /\ step' = "seed_dirs"
                 /\ ret' = ret
                 /\ IF load_cmdline_data(EmptyDict, cmdline.toks).ok
                    THEN Merge(<<"cmdline">>,
                               "meta-data" :> Dict(load_cmdline_data(EmptyDict, cmdline.toks).fill),
                               HowToken(cmdline.toks))
                    ELSE UNCHANGED <<found, mydata, contribs>>
    /\ UNCHANGED <<objVars, devlist, fetches, hotplugVars, otherVars, sideVars>>

FirstSeedDir_Last(n, res) ==
    IF res[Len(seed_dirs)].st # "ValueError" THEN Len(seed_dirs)
    ELSE IF res[1].st # "ValueError" THEN 1
    ELSE 0

\* for path in self.seed_dirs: the first directory whose read does not end
\* in a ValueError, or 0
RECURSIVE FirstSeedDir(_, _)
FirstSeedDir(n, res) ==
    IF n > Len(seed_dirs) THEN 0
    ELSE IF res[n].st # "ValueError" THEN n
    ELSE FirstSeedDir(n + 1, res)

SeedDirs ==
    /\ step = "seed_dirs"
    /\ \E r1 \in Draw(DirResults[1]) :
         \E r2 \in IF r1.st = "ValueError" THEN DrawAt(pos + 1, DirResults[2]) ELSE {r1} :
            LET res == <<r1, r2>>
                n == FirstSeedDir(1, res)
                read == IF n = 0 THEN Len(seed_dirs) ELSE n
            IN /\ consulted' = consulted \o SubSeq(seed_dirs, 1, read)
               /\ TapedSeq([i \in 1..read |-> [src |-> seed_dirs[i], r |-> res[i]]])
               /\ IF n = 0
                  THEN /\ step' = "ds_cfg"
                       /\ ret' = ret
                       /\ UNCHANGED <<found, mydata, contribs>>
                  ELSE IF res[n].st = "ok"
                  THEN /\ step' = "ds_cfg"
                       /\ ret' = ret
                       /\ Merge(seed_dirs[n], res[n].seeded, HowSeeded(res[n].seeded))
                  ELSE /\ Return("raised")
                       /\ UNCHANGED <<found, mydata, contribs>>
    /\ UNCHANGED <<objVars, devlist, fetches, hotplugVars, otherVars, sideVars>>

\* mydata["meta-data"]["seedfrom"] = self.ds_cfg["seedfrom"]
SetSeedfrom(cur, seedfrom) ==
    [cur EXCEPT !["meta-data"] = Put(cur["meta-data"], "seedfrom", seedfrom)]

\* the datasource config: its seedfrom, then its user-data and meta-data
DsConfig ==
    /\ step = "ds_cfg"
    /\ LET has_seedfrom == Truthy(Get(ds_cfg, "seedfrom"))
           has_seed == "user-data" \in DOMAIN ds_cfg /\ "meta-data" \in DOMAIN ds_cfg
           found1 == IF has_seedfrom THEN Append(found, <<"ds_config_seedfrom">>) ELSE found
           mydata1 == IF has_seedfrom THEN SetSeedfrom(mydata, ds_cfg["seedfrom"]) ELSE mydata
           contribs1 == IF has_seedfrom
                        THEN Append(contribs,
                                    Contrib(<<"ds_config_seedfrom">>,
                                            "meta-data" :> Dict("seedfrom" :> ds_cfg["seedfrom"]), "none"))
                        ELSE contribs
       IN /\ found' = IF has_seed THEN Append(found1, <<"ds_config">>) ELSE found1
          /\ mydata' = IF has_seed THEN _merge_new_seed(mydata1, ds_cfg) ELSE mydata1
          /\ contribs' = IF has_seed
                         THEN Append(contribs1, Contrib(<<"ds_config">>, ds_cfg, HowSeeded(ds_cfg)))
                         ELSE contribs1
    /\ consulted' = Append(consulted, <<"ds_cfg">>)
    /\ step' = "devices"
    /\ UNCHANGED <<objVars, devlist, ret, fetches, tapeVars, hotplugVars, otherVars, sideVars>>

SortReverse_Ascending(devs) ==
    SelectSeq(AllDevs, LAMBDA d : d \in devs)

\* devlist.sort(reverse=True)
SortReverse(devs) ==
    LET rev == [i \in DOMAIN AllDevs |-> AllDevs[Len(AllDevs) + 1 - i]]
    IN SelectSeq(rev, LAMBDA d : d \in devs)

\* the tags blkid may report of a device
FsTypes == {"vfat", "iso9660", "ext4"}
FsLabels == {"cidata", "CIDATA", "CiData", "other"}
FatbootLabels == {"cidata", "CIDATA", ""}
BlkTables == [Devs -> [TYPE : FsTypes, LABEL : FsLabels, LABEL_FATBOOT : FatbootLabels]]

\* label.upper() and label.lower()
upper(label) == IF label \in {"cidata", "CIDATA", "CiData"} THEN "CIDATA" ELSE "OTHER"
lower(label) == IF label \in {"cidata", "CIDATA", "CiData"} THEN "cidata" ELSE "other"

\* util.find_devs_with("KEY=value"): the devices whose tag KEY is value, as
\* blkid lists them
find_devs_with(blk, key, value) == SelectSeq(AllDevs, LAMBDA d : blk[d][key] = value)

\* set(l)
ToSet(l) == {l[i] : i \in DOMAIN l}

_get_devices_NoSet(label, blk) ==
    LET fslist == find_devs_with(blk, "TYPE", "vfat") \o find_devs_with(blk, "TYPE", "iso9660")
        label_list == find_devs_with(blk, "LABEL", upper(label))
                      \o find_devs_with(blk, "LABEL", lower(label))
                      \o find_devs_with(blk, "LABEL_FATBOOT", label)
        kept == SelectSeq(label_list, LAMBDA d : d \in ToSet(fslist))
    IN [i \in DOMAIN kept |-> kept[Len(kept) + 1 - i]]

_get_devices(label, blk) ==
    LET fslist == find_devs_with(blk, "TYPE", "vfat") \o find_devs_with(blk, "TYPE", "iso9660")
        label_list == find_devs_with(blk, "LABEL", upper(label))
                      \o find_devs_with(blk, "LABEL", lower(label))
                      \o find_devs_with(blk, "LABEL_FATBOOT", label)
    IN SortReverse(ToSet(fslist) \cap ToSet(label_list))

\* label = self.ds_cfg.get("fs_label", "cidata"); self._get_devices(label)
GetDevices ==
    /\ step = "devices"
    /\ LET label == IF "fs_label" \in DOMAIN ds_cfg THEN ds_cfg["fs_label"] ELSE "cidata"
       IN IF label = None
          THEN /\ devlist' = <<>>
               /\ UNCHANGED tapeVars
          ELSE \E devs \in Draw({[st |-> "ok", devlist |-> _get_devices(label, blk)] :
                                    blk \in BlkTables}) :
                  /\ devlist' = devs.devlist
                  /\ Taped(<<"blkid">>, devs)
    /\ step' = IF devlist' = <<>> THEN "found" ELSE "mount"
    /\ UNCHANGED <<objVars, mydata, found, ret, contribs, consulted, fetches, hotplugVars, otherVars, sideVars>>

MountDevice_SwallowAll ==
    /\ step = "mount"
    /\ LET dev == Head(devlist)
       IN \E r \in Draw(MountResults) :
            /\ consulted' = Append(consulted, dev)
            /\ Taped(dev, r)
            /\ devlist' = Tail(devlist)
            /\ CASE r.st = "ok" ->
                      /\ Merge(dev, r.seeded, HowSeeded(r.seeded))
                      /\ step' = "found"
                      /\ ret' = ret
                 [] r.st = "OSError" /\ r.errno # r.errno ->
                      /\ Return("raised")
                      /\ UNCHANGED <<found, mydata, contribs>>
                 [] OTHER ->
                      /\ step' = IF Tail(devlist) = <<>> THEN "found" ELSE "mount"
                      /\ ret' = ret
                      /\ UNCHANGED <<found, mydata, contribs>>
    /\ UNCHANGED <<objVars, fetches, hotplugVars, otherVars, sideVars>>

\* one round of "for dev in self._get_devices(label)"
MountDevice ==
    /\ step = "mount"
    /\ LET dev == Head(devlist)
       IN \E r \in Draw(MountResults) :
            /\ consulted' = Append(consulted, dev)
            /\ Taped(dev, r)
            /\ devlist' = Tail(devlist)
            /\ CASE r.st = "ok" ->
                      /\ Merge(dev, r.seeded, HowSeeded(r.seeded))
                      /\ step' = "found"
                      /\ ret' = ret
                 [] r.st = "OSError" /\ r.errno # "ENOENT" ->
                      /\ Return("raised")
                      /\ UNCHANGED <<found, mydata, contribs>>
                 [] OTHER ->
                      /\ step' = IF Tail(devlist) = <<>> THEN "found" ELSE "mount"
                      /\ ret' = ret
                      /\ UNCHANGED <<found, mydata, contribs>>
    /\ UNCHANGED <<objVars, fetches, hotplugVars, otherVars, sideVars>>

CheckFound_Never ==
    /\ step = "found"
    /\ step' = "seedfrom"
    /\ ret' = ret
    /\ UNCHANGED <<objVars, mydata, found, devlist, contribs, consulted, fetches, tapeVars,
                   hotplugVars, otherVars, sideVars>>

\* if not found: return False
CheckFound ==
    /\ step = "found"
    /\ IF found = <<>>
       THEN Return("False")
       ELSE /\ step' = "seedfrom"
            /\ ret' = ret
    /\ UNCHANGED <<objVars, mydata, found, devlist, contribs, consulted, fetches, tapeVars,
                   hotplugVars, otherVars, sideVars>>

\* dmi.sub_dmi_vars: the URLs here name no dmi variable
sub_dmi_vars(seedfrom) == seedfrom

Seedfrom_SeedFirst ==
    /\ step = "seedfrom"
    /\ IF "seedfrom" \notin DOMAIN mydata["meta-data"]
       THEN /\ step' = "defaults"
            /\ UNCHANGED <<mydata, found, ret, contribs, fetches, tapeVars>>
       ELSE LET seedfrom == mydata["meta-data"]["seedfrom"]
            IN IF ~startswith(seedfrom, supported_seed_starts)
               THEN /\ Return("False")
                    /\ UNCHANGED <<mydata, found, contribs, fetches, tapeVars>>
               ELSE \E r \in Draw(ReadSeededResults) :
                      /\ fetches' = Append(fetches, sub_dmi_vars(seedfrom))
                      /\ Taped(<<"read_seeded">>, r)
                      /\ IF r.st = "raises"
                         THEN /\ Return("raised")
                              /\ UNCHANGED <<mydata, found, contribs>>
                         ELSE /\ mydata' =
                                   [k \in DOMAIN mydata |->
                                      CASE k = "meta-data" ->
                                               mergemanydict(r.md_seed, mydata["meta-data"])
                                        [] k = "user-data" -> r.ud
                                        [] k = "vendor-data" -> r.vd
                                        [] k = "network-config" -> r.network]
                              /\ found' = Append(found, sub_dmi_vars(seedfrom))
                              /\ contribs' = Append(contribs,
                                                    [src |-> <<"seedfrom">>, md |-> r.md_seed,
                                                     how |-> IF "dsmode" \in DOMAIN r.md_seed
                                                             THEN "explicit" ELSE "none",
                                                     ud |-> r.ud, vd |-> r.vd, nc |-> r.network])
                              /\ step' = "defaults"
                              /\ ret' = ret
    /\ UNCHANGED <<objVars, devlist, consulted, hotplugVars, otherVars, sideVars>>

Seedfrom_AnyScheme ==
    /\ step = "seedfrom"
    /\ IF "seedfrom" \notin DOMAIN mydata["meta-data"]
       THEN /\ step' = "defaults"
            /\ UNCHANGED <<mydata, found, ret, contribs, fetches, tapeVars>>
       ELSE LET seedfrom == mydata["meta-data"]["seedfrom"]
            IN IF FALSE
               THEN /\ Return("False")
                    /\ UNCHANGED <<mydata, found, contribs, fetches, tapeVars>>
               ELSE \E r \in Draw(ReadSeededResults) :
                      /\ fetches' = Append(fetches, sub_dmi_vars(seedfrom))
                      /\ Taped(<<"read_seeded">>, r)
                      /\ IF r.st = "raises"
                         THEN /\ Return("raised")
                              /\ UNCHANGED <<mydata, found, contribs>>
                         ELSE /\ mydata' =
                                   [k \in DOMAIN mydata |->
                                      CASE k = "meta-data" ->
                                               mergemanydict(mydata["meta-data"], r.md_seed)
                                        [] k = "user-data" -> r.ud
                                        [] k = "vendor-data" -> r.vd
                                        [] k = "network-config" -> r.network]
                              /\ found' = Append(found, sub_dmi_vars(seedfrom))
                              /\ contribs' = Append(contribs,
                                                    [src |-> <<"seedfrom">>, md |-> r.md_seed,
                                                     how |-> IF "dsmode" \in DOMAIN r.md_seed
                                                             THEN "explicit" ELSE "none",
                                                     ud |-> r.ud, vd |-> r.vd, nc |-> r.network])
                              /\ step' = "defaults"
                              /\ ret' = ret
    /\ UNCHANGED <<objVars, devlist, consulted, hotplugVars, otherVars, sideVars>>

\* if "seedfrom" in mydata["meta-data"]: ...
Seedfrom ==
    /\ step = "seedfrom"
    /\ IF "seedfrom" \notin DOMAIN mydata["meta-data"]
       THEN /\ step' = "defaults"
            /\ UNCHANGED <<mydata, found, ret, contribs, fetches, tapeVars>>
       ELSE LET seedfrom == mydata["meta-data"]["seedfrom"]
            IN IF ~startswith(seedfrom, supported_seed_starts)
               THEN /\ Return("False")
                    /\ UNCHANGED <<mydata, found, contribs, fetches, tapeVars>>
               ELSE \E r \in Draw(ReadSeededResults) :
                      /\ fetches' = Append(fetches, sub_dmi_vars(seedfrom))
                      /\ Taped(<<"read_seeded">>, r)
                      /\ IF r.st = "raises"
                         THEN /\ Return("raised")
                              /\ UNCHANGED <<mydata, found, contribs>>
                         ELSE /\ mydata' =
                                   [k \in DOMAIN mydata |->
                                      CASE k = "meta-data" ->
                                               mergemanydict(mydata["meta-data"], r.md_seed)
                                        [] k = "user-data" -> r.ud
                                        [] k = "vendor-data" -> r.vd
                                        [] k = "network-config" -> r.network]
                              /\ found' = Append(found, sub_dmi_vars(seedfrom))
                              /\ contribs' = Append(contribs,
                                                    [src |-> <<"seedfrom">>, md |-> r.md_seed,
                                                     how |-> IF "dsmode" \in DOMAIN r.md_seed
                                                             THEN "explicit" ELSE "none",
                                                     ud |-> r.ud, vd |-> r.vd, nc |-> r.network])
                              /\ step' = "defaults"
                              /\ ret' = ret
    /\ UNCHANGED <<objVars, devlist, consulted, hotplugVars, otherVars, sideVars>>

\* _get_data: defaults
defaults == ("instance-id" :> <<"nocloud">>) @@ ("dsmode" :> dsmode)

\* ",".join(found)
RECURSIVE join(_)
join(l) ==
    IF l = <<>> THEN <<>>
    ELSE IF Len(l) = 1 THEN l[1]
    ELSE l[1] \o <<",">> \o join(Tail(l))

Finish_NoDisabledCheck ==
    /\ step = "defaults"
    /\ LET md == mergemanydict(mydata["meta-data"], defaults)
           mode == _determine_dsmode(Get(md, "dsmode"), dsmode)
       IN /\ mydata' = [mydata EXCEPT !["meta-data"] = md]
          /\ dsmode' = mode
          /\ seed' = join(found)
          /\ metadata' = md
          /\ userdata_raw' = mydata["user-data"]
          /\ vendordata_raw' = mydata["vendor-data"]
          /\ network_config' = mydata["network-config"]
          /\ network_eni' = Get(md, "network-interfaces")
          /\ Return("True")
    /\ UNCHANGED <<supported_seed_starts, ds_cfg, found, devlist, contribs, consulted,
                   fetches, tapeVars, hotplugVars, otherVars, sideVars>>

Finish_DefaultsFirst ==
    /\ step = "defaults"
    /\ LET md == mergemanydict(defaults, mydata["meta-data"])
           mode == _determine_dsmode(Get(md, "dsmode"), dsmode)
       IN /\ mydata' = [mydata EXCEPT !["meta-data"] = md]
          /\ dsmode' = mode
          /\ IF mode = DSMODE_DISABLED
             THEN /\ Return("False")
                  /\ UNCHANGED <<seed, metadata, userdata_raw, vendordata_raw,
                                 network_config, network_eni>>
             ELSE /\ seed' = join(found)
                  /\ metadata' = md
                  /\ userdata_raw' = mydata["user-data"]
                  /\ vendordata_raw' = mydata["vendor-data"]
                  /\ network_config' = mydata["network-config"]
                  /\ network_eni' = Get(md, "network-interfaces")
                  /\ Return("True")
    /\ UNCHANGED <<supported_seed_starts, ds_cfg, found, devlist, contribs, consulted,
                   fetches, tapeVars, hotplugVars, otherVars, sideVars>>

Finish_SeedLast ==
    /\ step = "defaults"
    /\ LET md == mergemanydict(mydata["meta-data"], defaults)
           mode == _determine_dsmode(Get(md, "dsmode"), dsmode)
       IN /\ mydata' = [mydata EXCEPT !["meta-data"] = md]
          /\ dsmode' = mode
          /\ IF mode = DSMODE_DISABLED
             THEN /\ Return("False")
                  /\ UNCHANGED <<seed, metadata, userdata_raw, vendordata_raw,
                                 network_config, network_eni>>
             ELSE /\ seed' = found[Len(found)]
                  /\ metadata' = md
                  /\ userdata_raw' = mydata["user-data"]
                  /\ vendordata_raw' = mydata["vendor-data"]
                  /\ network_config' = mydata["network-config"]
                  /\ network_eni' = Get(md, "network-interfaces")
                  /\ Return("True")
    /\ UNCHANGED <<supported_seed_starts, ds_cfg, found, devlist, contribs, consulted,
                   fetches, tapeVars, hotplugVars, otherVars, sideVars>>

\* the defaults, the dsmode, and the attributes of the datasource
Finish ==
    /\ step = "defaults"
    /\ LET md == mergemanydict(mydata["meta-data"], defaults)
           mode == _determine_dsmode(Get(md, "dsmode"), dsmode)
       IN /\ mydata' = [mydata EXCEPT !["meta-data"] = md]
          /\ dsmode' = mode
          /\ IF mode = DSMODE_DISABLED
             THEN /\ Return("False")
                  /\ UNCHANGED <<seed, metadata, userdata_raw, vendordata_raw,
                                 network_config, network_eni>>
             ELSE /\ seed' = join(found)
                  /\ metadata' = md
                  /\ userdata_raw' = mydata["user-data"]
                  /\ vendordata_raw' = mydata["vendor-data"]
                  /\ network_config' = mydata["network-config"]
                  /\ network_eni' = Get(md, "network-interfaces")
                  /\ Return("True")
    /\ UNCHANGED <<supported_seed_starts, ds_cfg, found, devlist, contribs, consulted,
                   fetches, tapeVars, hotplugVars, otherVars, sideVars>>

NextNoCloud ==
    \/ ReadDmi
    \/ ReadCmdline
    \/ SeedDirs
    \/ DsConfig
    \/ GetDevices
    \/ MountDevice
    \/ CheckFound
    \/ Seedfrom
    \/ Finish

SpecNoCloud == InitNoCloud /\ [][NextNoCloud]_vars

\* what a run of _get_data ended with: what it returned and the attributes
\* of the datasource
Outcome ==
    [ret |-> ret, seed |-> seed, metadata |-> metadata, userdata_raw |-> userdata_raw,
     vendordata_raw |-> vendordata_raw, network_config |-> network_config,
     network_eni |-> network_eni, dsmode |-> dsmode]

Rerun_KeepsFound(fresh) ==
    /\ step = "done"
    /\ pos = 0
    /\ first' = Outcome
    /\ pos' = 1
    /\ tape' = tape
    /\ step' = "dmi"
    /\ mydata' = EmptyMydata
    /\ found' = found
    /\ devlist' = <<>>
    /\ ret' = None
    /\ contribs' = <<>>
    /\ consulted' = <<>>
    /\ fetches' = <<>>
    /\ IF fresh
       THEN /\ dsmode' = DSMODE_NETWORK
            /\ seed' = NoneT
            /\ metadata' = EmptyDict
            /\ userdata_raw' = None
            /\ vendordata_raw' = None
            /\ network_config' = None
            /\ network_eni' = NoneT
            /\ UNCHANGED <<supported_seed_starts, ds_cfg>>
       ELSE UNCHANGED objVars
    /\ UNCHANGED <<hotplugVars, otherVars, sideVars>>

\* _get_data is called again, on the same datasource object or on a fresh
\* one of the same class and configuration, and every source answers as it
\* answered the first time; its locals (found, mydata) start anew.
Rerun(fresh) ==
    /\ step = "done"
    /\ pos = 0
    /\ first' = Outcome
    /\ pos' = 1
    /\ tape' = tape
    /\ step' = "dmi"
    /\ mydata' = EmptyMydata
    /\ found' = <<>>
    /\ devlist' = <<>>
    /\ ret' = None
    /\ contribs' = <<>>
    /\ consulted' = <<>>
    /\ fetches' = <<>>
    /\ IF fresh
       THEN /\ dsmode' = DSMODE_NETWORK
            /\ seed' = NoneT
            /\ metadata' = EmptyDict
            /\ userdata_raw' = None
            /\ vendordata_raw' = None
            /\ network_config' = None
            /\ network_eni' = NoneT
            /\ UNCHANGED <<supported_seed_starts, ds_cfg>>
       ELSE UNCHANGED objVars
    /\ UNCHANGED <<hotplugVars, otherVars, sideVars>>

GetDataAgain == \E fresh \in BOOLEAN : Rerun(fresh)

NextTwice ==
    \/ NextNoCloud
    \/ GetDataAgain

SpecTwice == InitNoCloud /\ [][NextTwice]_vars

(* --------------------------- network_config --------------------------- *)
\* how often the property is read
MaxReads == 2

\* eni.convert_eni_data: the network config an /etc/network/interfaces text
\* converts to
convert_eni_data(text) ==
    IF text = <<"eni-dirnet">> THEN "v1-of-eni-dirnet" ELSE "v1-of-eni"

network_config_EniFirst ==
    /\ step = "done"
    /\ ret = "True"
    /\ Len(reads) < MaxReads
    /\ network_config' = IF network_eni # NoneT
                         THEN convert_eni_data(network_eni)
                         ELSE network_config
    /\ reads' = Append(reads, network_config')
    /\ UNCHANGED <<supported_seed_starts, dsmode, ds_cfg, seed, metadata, userdata_raw,
                   vendordata_raw, network_eni, callVars, tapeVars, blkid, hotplugVars, otherVars>>

\* the property network_config of a datasource whose _get_data returned True
network_config_property ==
    /\ step = "done"
    /\ ret = "True"
    /\ Len(reads) < MaxReads
    /\ network_config' = IF network_config = None /\ network_eni # NoneT
                         THEN convert_eni_data(network_eni)
                         ELSE network_config
    /\ reads' = Append(reads, network_config')
    /\ UNCHANGED <<supported_seed_starts, dsmode, ds_cfg, seed, metadata, userdata_raw,
                   vendordata_raw, network_eni, callVars, tapeVars, blkid, hotplugVars, otherVars>>

NextNetwork ==
    \/ NextNoCloud
    \/ network_config_property

SpecNetwork == InitNoCloud /\ [][NextNetwork]_vars

(* ---------------------------- _get_devices ----------------------------- *)
\* the labels a datasource config may ask for
Labels == {"cidata", "CIDATA", "CiData"}

\* a datasource with a label configured, on a machine with some block devices
InitDevices ==
    /\ HotplugInit
    /\ scopesOnDisk = <<>>
    /\ NoEnablers
    /\ NoExtraConfigObject
    /\ NoParse
    /\ NoSoftLayerObject
    /\ step = "blkid"
    /\ supported_seed_starts = LocalProtos
    /\ dsmode = DSMODE_NETWORK
    /\ ds_cfg \in {"fs_label" :> l : l \in Labels}
    /\ blkid \in BlkTables
    /\ reads = <<>>
    /\ mydata = EmptyMydata
    /\ found = <<>>
    /\ devlist = <<>>
    /\ seed = NoneT
    /\ metadata = EmptyDict
    /\ userdata_raw = None
    /\ vendordata_raw = None
    /\ network_config = None
    /\ network_eni = NoneT
    /\ ret = None
    /\ contribs = <<>>
    /\ consulted = <<>>
    /\ fetches = <<>>
    /\ tape = <<>>
    /\ pos = 0
    /\ first = [ret |-> None]

\* devlist = self._get_devices(label)
ListDevices ==
    /\ step = "blkid"
    /\ devlist' = _get_devices(ds_cfg["fs_label"], blkid)
    /\ step' = "listed"
    /\ UNCHANGED <<objVars, mydata, found, ret, contribs, consulted, fetches, tapeVars,
                   hotplugVars, otherVars, sideVars>>

NextDevices == ListDevices

SpecDevices == InitDevices /\ [][NextDevices]_vars

(* ======================================================================= *)
(* Properties of the NoCloud datasource                                    *)
(* ======================================================================= *)
\* _get_data is over, by a return or by an exception.
Over == step = "done"

\* No attribute that _get_data assigns on success has been assigned.
NothingSet ==
    /\ seed = NoneT
    /\ metadata = EmptyDict
    /\ userdata_raw = None
    /\ vendordata_raw = None
    /\ network_config = None
    /\ network_eni = NoneT

\* C13: when none of the sources (DMI serial, command line, seed
\* directories, datasource config, labeled volumes) contributed anything,
\* _get_data does not go on to the seedfrom fetch or to an empty bundle:
\* what it returns is False, read_seeded is not called and no attribute is
\* set.  (The one other way out of it then is the OSError of a seed
\* directory read or, ENOENT apart, of a volume read, which is raised and not
\* returned.)
C13_NothingFound ==
    found = <<>>
    => /\ step \notin {"seedfrom", "defaults"}
       /\ fetches = <<>>
       /\ NothingSet
       /\ Over => \/ ret = "False"
                  \/ /\ ret = "raised"
                     /\ consulted[Len(consulted)] \in Devs \cup {seed_dirs[1], seed_dirs[2]}

\* every source was asked, a volume included, none had a seed, and _get_data
\* returned False
C13_Witness ==
    /\ Over
    /\ found = <<>>
    /\ ret = "False"
    /\ Len(consulted) = 7
    /\ consulted[7] \in Devs

\* C14: the dsmode is computed once, when all merging (defaults included) is
\* done; if it is disabled, _get_data returns False whatever was gathered,
\* and seed, metadata, user-data, vendor-data and network-config are not set.
C14_DisabledNotClaimed ==
    /\ ~Over => dsmode = DSMODE_NETWORK
    /\ (Over /\ dsmode = DSMODE_DISABLED) => (ret = "False" /\ NothingSet)
    /\ (Over /\ ret = "True")
         => (dsmode # DSMODE_DISABLED /\ dsmode = mydata["meta-data"]["dsmode"])

\* disabled after two sources and a fetched seedfrom had given data
C14_Witness ==
    /\ Over
    /\ dsmode = DSMODE_DISABLED
    /\ ret = "False"
    /\ Len(found) >= 3
    /\ fetches # <<>>
    /\ mydata["user-data"] = "ud-url"

\* the metadata keys the sources use
MdKeys == {"instance-id", "dsmode", "seedfrom", "local-hostname", "network-interfaces"}

\* the gathered sources (every one but the fetched seedfrom) that supplied
\* the metadata key k, by their place in the processing order
Suppliers(k) ==
    {i \in DOMAIN contribs : contribs[i].src # <<"seedfrom">> /\ k \in DOMAIN contribs[i].md}

First(S) == CHOOSE i \in S : \A j \in S : i <= j
Last(S) == CHOOSE i \in S : \A j \in S : j <= i

FetchedAt ==
    IF \E i \in DOMAIN contribs : contribs[i].src = <<"seedfrom">>
    THEN CHOOSE i \in DOMAIN contribs : contribs[i].src = <<"seedfrom">>
    ELSE 0

\* the value the gathered sources give the metadata key k
Gathered(k) ==
    IF k = "seedfrom" /\ \E i \in Suppliers(k) : contribs[i].src = <<"ds_config_seedfrom">>
    THEN ds_cfg["seedfrom"]
    ELSE contribs[First(Suppliers(k))].md[k]

\* C16 (as stated): once a seedfrom URL is fetched, a key that both the
\* gathered and the fetched metadata have holds the fetched value.
C16_Original ==
    FetchedAt # 0
    => \A k \in DOMAIN contribs[FetchedAt].md :
          Suppliers(k) # {} => mydata["meta-data"][k] = contribs[FetchedAt].md[k]

\* C16 (amended): once a seedfrom URL is fetched, a key that both the
\* gathered and the fetched metadata have keeps the gathered value; the
\* fetched metadata only supplies the keys the gathered metadata lacks.
C16_GatheredOverFetched ==
    FetchedAt # 0
    => \A k \in DOMAIN contribs[FetchedAt].md :
          mydata["meta-data"][k] =
             IF Suppliers(k) # {} THEN Gathered(k) ELSE contribs[FetchedAt].md[k]

\* the fetched metadata has another instance-id than the gathered one, which
\* is kept, and a local-hostname that nothing else gave
C16_Witness ==
    /\ FetchedAt # 0
    /\ Get(contribs[FetchedAt].md, "instance-id") = <<"iid-url">>
    /\ Suppliers("instance-id") # {}
    /\ Suppliers("local-hostname") = {}
    /\ ret = "True"
    /\ Get(metadata, "instance-id") = <<"iid-dirnet">>
    /\ Get(metadata, "local-hostname") = <<"urlhost">>

\* every source, the fetched seedfrom included, that supplied the key k
AllSuppliers(k) == {i \in DOMAIN contribs : k \in DOMAIN contribs[i].md}

\* C17: whenever _get_data returns True the metadata has an instance-id and
\* a dsmode; they are the defaults ("nocloud", the datasource's own dsmode)
\* only when no source supplied them, and a supplied value otherwise.
C17_InstanceIdAndDsmode ==
    (Over /\ ret = "True")
    => \A k \in {"instance-id", "dsmode"} :
          /\ k \in DOMAIN metadata
          /\ IF AllSuppliers(k) = {}
             THEN metadata[k] = IF k = "instance-id" THEN <<"nocloud">> ELSE DSMODE_NETWORK
             ELSE /\ \E i \in AllSuppliers(k) : metadata[k] = contribs[i].md[k]
                  /\ k = "instance-id" => metadata[k] # <<"nocloud">>

\* True with both defaults: the sources that were found gave neither key
C17_Witness ==
    /\ Over
    /\ ret = "True"
    /\ found # <<>>
    /\ AllSuppliers("instance-id") = {}
    /\ AllSuppliers("dsmode") = {}
    /\ metadata["instance-id"] = <<"nocloud">>
    /\ metadata["dsmode"] = DSMODE_NETWORK

\* the gathered sources (every one but the fetched seedfrom) that carry the
\* field f ("ud", "vd" or "nc"), and those that carry a non-empty one
Carriers(f) ==
    {i \in DOMAIN contribs : contribs[i].src # <<"seedfrom">> /\ contribs[i][f] # Absent}
NonEmpty(f) ==
    {i \in DOMAIN contribs : contribs[i][f] \notin {Absent, "", None}}

\* mydata[...] of the field f
Held(f) ==
    CASE f = "ud" -> mydata["user-data"]
      [] f = "vd" -> mydata["vendor-data"]
      [] f = "nc" -> mydata["network-config"]

\* C18 (as stated): user-data, vendor-data and network-config hold the value
\* of the last source (the fetched seedfrom included) that supplied a
\* non-empty one; an empty or absent value of a later source erases nothing.
C18_Original ==
    \A f \in {"ud", "vd", "nc"} :
        NonEmpty(f) # {} => Held(f) = contribs[Last(NonEmpty(f))][f]

\* C18 (amended): each of the three is replaced as a whole.  A fetched
\* seedfrom replaces all three with what it returned, empty or None
\* included.  Before that, user-data and vendor-data hold the value of the
\* last gathered source that carries the key, even an empty one, and
\* network-config holds the last non-empty one.
C18_WholeValueReplaced ==
    \A f \in {"ud", "vd", "nc"} :
        Held(f) =
           IF FetchedAt # 0 THEN contribs[FetchedAt][f]
           ELSE IF f = "nc"
                THEN IF NonEmpty(f) = {} THEN None ELSE contribs[Last(NonEmpty(f))][f]
                ELSE IF Carriers(f) = {} THEN "" ELSE contribs[Last(Carriers(f))][f]

\* a later gathered source with an empty user-data and an empty
\* network-config erased the user-data of an earlier one, not its
\* network-config
C18_Witness ==
    /\ FetchedAt = 0
    /\ \E i, j \in DOMAIN contribs :
          /\ i < j
          /\ contribs[i].ud = "ud-dir"
          /\ contribs[i].nc = "net-dir"
          /\ contribs[j].ud = ""
    /\ mydata["user-data"] = ""
    /\ mydata["network-config"] = "net-dir"

\* _get_data went as far as computing self.dsmode
DsmodeResolved == Over /\ (ret = "True" \/ dsmode = DSMODE_DISABLED)

\* the sources whose dsmode came about in the way h
SourcesWith(h) == {i \in DOMAIN contribs : contribs[i].how = h}

\* C19 (as stated): the resolved dsmode is the first explicit dsmode of the
\* sources in processing order; with no explicit one, the first derived from
\* a seedfrom scheme; failing that a token's default; a derived dsmode never
\* displaces an explicit one of another source.
C19_Original ==
    DsmodeResolved
    => dsmode =
         IF SourcesWith("explicit") # {}
         THEN contribs[First(SourcesWith("explicit"))].md["dsmode"]
         ELSE IF SourcesWith("seedfrom") # {}
         THEN contribs[First(SourcesWith("seedfrom"))].md["dsmode"]
         ELSE IF SourcesWith("default") # {}
         THEN contribs[First(SourcesWith("default"))].md["dsmode"]
         ELSE DSMODE_NETWORK

\* C19 (amended): the resolved dsmode is the dsmode of the first source in
\* processing order whose metadata has one, however it came about, and the
\* datasource's own dsmode when none has.  The metadata of a parsed DMI or
\* command line token has the dsmode written in the token, else the one of
\* its seedfrom scheme (none for an unknown scheme), else the token's default.
C19_FirstDsmodeWins ==
    /\ DsmodeResolved
        => dsmode = IF AllSuppliers("dsmode") = {} THEN DSMODE_NETWORK
                    ELSE contribs[First(AllSuppliers("dsmode"))].md["dsmode"]
    /\ \A i \in DOMAIN contribs :
         LET c == contribs[i]
         IN CASE c.how = "explicit" -> "dsmode" \in DOMAIN c.md
              [] c.how = "seedfrom" ->
                    /\ "dsmode" \in DOMAIN c.md
                    /\ c.md["dsmode"] = IF startswith(c.md["seedfrom"], NetProtos)
                                        THEN DSMODE_NETWORK ELSE DSMODE_LOCAL
              [] c.how = "default" ->
                    /\ "seedfrom" \notin DOMAIN c.md
                    /\ "dsmode" \in DOMAIN c.md
                    /\ c.md["dsmode"] \in {DSMODE_LOCAL, DSMODE_NETWORK}
              [] OTHER -> "dsmode" \notin DOMAIN c.md

\* the default dsmode of the command line's token displaced the dsmode
\* written in the meta-data of a seed directory
C19_Witness ==
    /\ DsmodeResolved
    /\ ret = "True"
    /\ dsmode = DSMODE_LOCAL
    /\ \E i, j \in DOMAIN contribs :
          /\ i < j
          /\ contribs[i].src = <<"cmdline">>
          /\ contribs[i].how = "default"
          /\ contribs[j].how = "explicit"
          /\ Get(contribs[j].md, "dsmode") = DSMODE_DISABLED

\* the seedfrom that was collected is one this datasource does not take
UnusableSeedfrom ==
    /\ "seedfrom" \in DOMAIN mydata["meta-data"]
    /\ ~startswith(mydata["meta-data"]["seedfrom"], supported_seed_starts)

\* C20: a collected seedfrom whose prefix is not one of the datasource's
\* supported_seed_starts ("/", "file://" for NoCloud; "http://", "https://",
\* "ftp://", "ftps://" for NoCloudNet) makes _get_data return False, without
\* raising, fetching or setting anything; read_seeded is never called with a
\* URL outside those prefixes.
C20_UnusableSeedfrom ==
    [][/\ \A i \in DOMAIN fetches' : startswith(fetches'[i], supported_seed_starts)
       /\ (step = "seedfrom" /\ UnusableSeedfrom)
            => /\ step' = "done"
               /\ ret' = "False"
               /\ fetches' = <<>>
               /\ NothingSet'
               /\ UNCHANGED <<objVars, mydata, found>>]_vars

\* the local datasource found sources, one of them with an http:// seedfrom,
\* and returned False at the seedfrom without a fetch
C20_Witness ==
    /\ Over
    /\ ret = "False"
    /\ found # <<>>
    /\ dsmode # DSMODE_DISABLED
    /\ Len(consulted) >= 5
    /\ supported_seed_starts = LocalProtos
    /\ UnusableSeedfrom
    /\ Get(mydata["meta-data"], "seedfrom") = U_http
    /\ fetches = <<>>

\* the place of a device in the ascending order of the device names
DevRank(d) == CHOOSE i \in DOMAIN AllDevs : AllDevs[i] = d

\* the volumes that were mounted, in the order of their mounting
ConsultedDevs == SelectSeq(consulted, LAMBDA s : s \in Devs)

\* l is in descending order, without duplicates
Descending(l) == \A i, j \in DOMAIN l : i < j => DevRank(l[i]) > DevRank(l[j])

\* the places of the volumes in found
Winners == {i \in DOMAIN found : found[i] \in Devs}

\* C21: the labeled volumes are tried in reverse-sorted order; at most one
\* contributes, the first in that order whose mount yields a seed; once it
\* has, no further volume is mounted; a volume that fails contributes
\* nothing.
C21_FirstVolumeWins ==
    [][/\ Descending(ConsultedDevs' \o devlist')
       /\ Cardinality(Winners') <= 1
       /\ \A i \in Winners' : found'[i] = ConsultedDevs'[Len(ConsultedDevs')]
       /\ \A i \in DOMAIN contribs' :
             contribs'[i].src \in Devs => \E w \in Winners' : found'[w] = contribs'[i].src
       /\ Winners # {} => (consulted' = consulted /\ step' # "mount")
       /\ (step = "mount" /\ found' = found) => (mydata' = mydata /\ contribs' = contribs)
      ]_vars

\* /dev/vdb was mounted first and failed, /dev/sr0 after it gave the seed
C21_Witness ==
    /\ Over
    /\ ret = "True"
    /\ ConsultedDevs = << <<"/dev/vdb">>, <<"/dev/sr0">> >>
    /\ Winners # {}
    /\ \A i \in Winners : found[i] = <<"/dev/sr0">>
    /\ metadata["instance-id"] = <<"iid-vol">>

\* the places on the tape of the answers of the seed directories and of the
\* labeled volumes
Candidates == {i \in DOMAIN tape : tape[i].src \in Devs \cup {seed_dirs[1], seed_dirs[2]}}

\* The answer is an error that the loop it came from catches: the ValueError
\* of a missing required file, and on a volume the MountFailedError and the
\* OSError whose errno is ENOENT.
Caught(e) ==
    \/ e.r.st = "ValueError"
    \/ e.src \in Devs /\ e.r.st = "MountFailedError"
    \/ e.src \in Devs /\ e.r.st = "OSError" /\ e.r.errno = "ENOENT"

\* The answer is an OSError that no handler of its loop catches.
Uncaught(e) == e.r.st = "OSError" /\ ~Caught(e)

\* The answer is a seed whose meta-data is no YAML.
BadYaml(e) == e.r.st = "ok" /\ e.r.seeded["meta-data"] = Unparsable

\* _get_data was left by the exception of the answer at place i
RaisedAt(i) == Over /\ ret = "raised" /\ i = Len(tape) /\ fetches = <<>>

\* C22 as stated: no error of a seed directory or of a labeled volume
\* (missing files, mount failure, any OSError, unparsable YAML) leaves
\* _get_data; the candidate gives nothing and the next one is tried.
C22_Original ==
    \A i \in Candidates :
        (tape[i].r.st # "ok" \/ BadYaml(tape[i]))
        => /\ ~RaisedAt(i)
           /\ \A k \in DOMAIN found : found[k] # tape[i].src

\* C22: a missing required file (ValueError), a failed mount and an OSError
\* with errno ENOENT are caught: the candidate gives nothing and _get_data
\* goes on.  Any other OSError of a volume, and every OSError of a seed
\* directory, leaves _get_data as an exception, with no source asked after
\* it.  Unparsable meta-data raises nothing, but the volume is not skipped:
\* it is the one that contributes, with empty metadata.
C22_SwallowedErrors ==
    \A i \in Candidates :
        /\ Caught(tape[i])
             => /\ ~RaisedAt(i)
                /\ \A k \in DOMAIN found : found[k] # tape[i].src
        /\ Uncaught(tape[i])
             => /\ RaisedAt(i)
                /\ \A k \in DOMAIN found : found[k] # tape[i].src
        /\ BadYaml(tape[i])
             => /\ ~RaisedAt(i)
                /\ \E k \in DOMAIN found :
                      /\ found[k] = tape[i].src
                      /\ contribs[k].md = EmptyDict
                      /\ step \in {"found", "seedfrom", "defaults", "done"}

\* a volume that failed to mount was passed over, and the next one ended
\* _get_data with an I/O error
C22_Witness ==
    /\ Len(tape) >= 2
    /\ tape[Len(tape) - 1].src = <<"/dev/vdb">>
    /\ tape[Len(tape) - 1].r.st = "MountFailedError"
    /\ tape[Len(tape)].src = <<"/dev/sr0">>
    /\ tape[Len(tape)].r = [st |-> "OSError", errno |-> "EIO"]
    /\ RaisedAt(Len(tape))

\* the local seed directories
SeedDirSet == {seed_dirs[i] : i \in DOMAIN seed_dirs}

\* the seed directories read so far, in the order of the reading
ConsultedDirs == SelectSeq(consulted, LAMBDA s : s \in SeedDirSet)

\* the places on the tape of the answers of the seed directories
DirAnswers == {i \in DOMAIN tape : tape[i].src \in SeedDirSet}

\* C23: the seed directories are read in their order, nocloud and then
\* nocloud-net; at most one contributes, the first that holds both required
\* files, and none is read after it; a directory that lacks a required file
\* is passed over and raises nothing.
C23_FirstSeedDirWins ==
    /\ ConsultedDirs = SubSeq(seed_dirs, 1, Len(ConsultedDirs))
    /\ Cardinality({k \in DOMAIN found : found[k] \in SeedDirSet}) <= 1
    /\ \A i \in DirAnswers :
          /\ tape[i].r.st = "ok"
               <=> \E k \in DOMAIN found : found[k] = tape[i].src
          /\ tape[i].r.st = "ok"
               => /\ \A j \in DirAnswers : j < i => tape[j].r.st = "ValueError"
                  /\ \A j \in DirAnswers : j <= i
                  /\ ConsultedDirs[Len(ConsultedDirs)] = tape[i].src
          /\ tape[i].r.st = "ValueError"
               => /\ ~RaisedAt(i)
                  /\ tape[i].src # seed_dirs[Len(seed_dirs)]
                       => (i + 1 \in DirAnswers /\ tape[i + 1].src # tape[i].src)

\* the nocloud directory matched and the nocloud-net directory was never
\* read, though _get_data went on to the end
C23_Witness ==
    /\ Over
    /\ ret = "True"
    /\ ConsultedDirs = <<seed_dirs[1]>>
    /\ \E k \in DOMAIN found : found[k] = seed_dirs[1]
    /\ userdata_raw = "ud-dir"

\* the places on the tape where reading the DMI serial number, or parsing it
\* or the command line, raised
ParseFailures == {i \in DOMAIN tape : tape[i].src \in {<<"dmi">>, <<"cmdline">>}
                                      /\ tape[i].r.st = "raises"}

\* C24: an exception while the DMI serial number is read or parsed, or while
\* the command line is parsed, ends _get_data at once: it returns False, no
\* source is asked after the one that raised, nothing is fetched and no
\* attribute is set, whatever was merged before.
C24_ParseFailureAborts ==
    \A i \in ParseFailures :
        /\ Over
        /\ ret = "False"
        /\ i = Len(tape)
        /\ consulted[Len(consulted)] = tape[i].src
        /\ Len(consulted) = i
        /\ fetches = <<>>
        /\ NothingSet

\* the DMI serial number had given metadata when the command line failed to
\* parse
C24_Witness ==
    /\ ParseFailures = {2}
    /\ tape[2].src = <<"cmdline">>
    /\ found = << <<"dmi">> >>
    /\ Get(mydata["meta-data"], "instance-id") = <<"iid-dmi">>
    /\ ret = "False"

\* C25: _get_data run a second time over the same source data, on the same
\* object or on a fresh one, asks the same sources and ends as the first run
\* ended: the same return value (or the same exception), seed, metadata,
\* user-data, vendor-data, network-config and dsmode.
C25_Idempotent ==
    (pos > 0 /\ Over)
    => /\ pos = Len(tape) + 1
       /\ Outcome = first

\* a second run on an object whose dsmode the first run had moved from the
\* default ended, like the first, with a bundle
C25_Witness ==
    /\ pos > 0
    /\ Over
    /\ first.ret = "True"
    /\ first.dsmode = DSMODE_LOCAL
    /\ Len(found) >= 2
    /\ seed = join(found)

\* the tokens of a command line that start with "ds=nocloud"
DsTokens(toks) == {i \in DOMAIN toks : TokStartsWith(toks[i].id, "ds=nocloud")}

\* the metadata key a key of the token stands for
LongKey(k) ==
    IF k = "h" THEN "local-hostname"
    ELSE IF k = "i" THEN "instance-id"
    ELSE IF k = "s" THEN "seedfrom"
    ELSE k

\* the token has no dsmode of its own and a seedfrom that is a file:// URL
\* or a path
LocalSeedfrom(tok) ==
    /\ \A j \in DOMAIN tok.items : tok.items[j].k # "dsmode"
    /\ \E j \in DOMAIN tok.items :
          /\ tok.items[j].k = "s"
          /\ tok.items[j].v # <<>>
          /\ tok.items[j].v[1] \in {"file://", "/"}

\* C26: the key=value pairs of the "ds=nocloud..." token of the command line
\* are the metadata the command line supplies, h, i and s standing for
\* local-hostname, instance-id and seedfrom; with a file:// (or path)
\* seedfrom and no dsmode in the token, that metadata has dsmode local.
\* When neither the DMI serial number nor a configured seedfrom precedes it,
\* these are the values of the resolved metadata.
C26_CmdlineToken ==
    \A i \in DOMAIN tape :
        (/\ tape[i].src = <<"cmdline">>
         /\ tape[i].r.st = "ok"
         /\ Cardinality(DsTokens(tape[i].r.toks)) = 1)
        => LET tok == tape[i].r.toks[CHOOSE t \in DsTokens(tape[i].r.toks) : TRUE]
           IN \E c \in DOMAIN contribs :
                 /\ contribs[c].src = <<"cmdline">>
                 /\ found[c] = <<"cmdline">>
                 /\ \A j \in DOMAIN tok.items :
                       /\ LongKey(tok.items[j].k) \in DOMAIN contribs[c].md
                       /\ contribs[c].md[LongKey(tok.items[j].k)] = tok.items[j].v
                 /\ LocalSeedfrom(tok) => contribs[c].md["dsmode"] = DSMODE_LOCAL
                 /\ (/\ Over
                     /\ ret = "True"
                     /\ c = 1
                     /\ "seedfrom" \notin DOMAIN ds_cfg)
                    => /\ \A j \in DOMAIN tok.items :
                             metadata[LongKey(tok.items[j].k)] = tok.items[j].v
                       /\ LocalSeedfrom(tok) => (/\ metadata["dsmode"] = DSMODE_LOCAL
                                                 /\ dsmode = DSMODE_LOCAL)

\* "ds=nocloud;s=file://.../;h=myhost" on the command line of a local-stage
\* datasource, with nothing from DMI
C26_Witness ==
    /\ Over
    /\ ret = "True"
    /\ found[1] = <<"cmdline">>
    /\ Get(metadata, "local-hostname") = <<"myhost">>
    /\ Get(metadata, "seedfrom") = U_file
    /\ Get(metadata, "dsmode") = DSMODE_LOCAL
    /\ dsmode = DSMODE_LOCAL

\* The answer on the tape is one that makes its source a contributing one:
\* a serial number or command line with a ds=nocloud token, a directory or
\* volume that gave its files.
Gave(e) ==
    /\ e.r.st = "ok"
    /\ e.src \in {<<"dmi">>, <<"cmdline">>}
         => \E t \in DOMAIN e.r.toks : e.r.toks[t].id \in {"ds=nocloud", "ds=nocloud-net"}

\* the sources among S that gave something, in the order they were asked
Givers(S) ==
    LET sel == SelectSeq(tape, LAMBDA e : e.src \in S /\ Gave(e))
    IN [i \in DOMAIN sel |-> sel[i].src]

\* The provenance the source data call for: dmi, cmdline, the seed
\* directory, ds_config_seedfrom, ds_config, the volume, the URL fetched.
ExpectedFound ==
    Givers({<<"dmi">>, <<"cmdline">>} \cup SeedDirSet)
    \o (IF "seedfrom" \in DOMAIN ds_cfg THEN << <<"ds_config_seedfrom">> >> ELSE <<>>)
    \o (IF {"user-data", "meta-data"} \subseteq DOMAIN ds_cfg THEN << <<"ds_config">> >> ELSE <<>>)
    \o Givers(Devs)
    \o (IF Givers({<<"read_seeded">>}) # <<>> THEN <<fetches[1]>> ELSE <<>>)

\* the one answer of the device dev on the tape
AnswerOf(dev) == tape[CHOOSE i \in DOMAIN tape : tape[i].src = dev].r

\* C27: when _get_data returns True, seed is the comma-joined list of the
\* sources that contributed, each once, in the order dmi, cmdline, seed
\* directory, ds_config_seedfrom, ds_config, volume, fetched URL.  When a
\* volume is the only one, seed is its device path, user-data, vendor-data
\* and network-config are the volume's, and the metadata is the volume's
\* with the defaults (instance-id nocloud, the datasource's dsmode) under it.
C27_Provenance ==
    (Over /\ ret = "True")
    => /\ found = ExpectedFound
       /\ seed = join(ExpectedFound)
       /\ (Len(found) = 1 /\ found[1] \in Devs)
          => LET vol == AnswerOf(found[1]).seeded
             IN /\ seed = found[1]
                /\ userdata_raw = vol["user-data"]
                /\ \A k \in DOMAIN vol["meta-data"].yaml :
                      metadata[k] = vol["meta-data"].yaml[k]
                /\ \A k \in DOMAIN metadata \ DOMAIN vol["meta-data"].yaml :
                      /\ k \in {"instance-id", "dsmode"}
                      /\ k = "instance-id" => metadata[k] = <<"nocloud">>
                      /\ k = "dsmode" => metadata[k] = DSMODE_NETWORK

\* five sources contributed, a volume and a fetched URL among them
C27_Witness ==
    /\ Over
    /\ ret = "True"
    /\ Len(found) >= 5
    /\ found[1] = <<"dmi">>
    /\ found[Len(found) - 1] \in Devs
    /\ found[Len(found)] = U_http
    /\ seed = join(found)

\* the devices whose type _get_devices accepts
TypeOk == {d \in Devs : blkid[d].TYPE \in {"vfat", "iso9660"}}

\* C28 (as stated): _get_devices(label) returns, in descending order and
\* each once, the vfat and iso9660 devices whose label is the configured
\* one whatever the case of its letters, or whose LABEL_FATBOOT is the
\* configured label.
C28_Original ==
    step = "listed"
    => /\ Descending(devlist)
       /\ ToSet(devlist) =
             {d \in TypeOk : \/ lower(blkid[d].LABEL) = lower(ds_cfg["fs_label"])
                             \/ blkid[d].LABEL_FATBOOT = ds_cfg["fs_label"]}

\* C28: _get_devices(label) returns, in descending order and each once, the
\* vfat and iso9660 devices whose label is the configured one in upper case
\* or in lower case, or whose LABEL_FATBOOT is the label as configured; a
\* device whose label spells it in mixed case is not among them.
C28_UpperOrLower ==
    step = "listed"
    => /\ Descending(devlist)
       /\ ToSet(devlist) =
             {d \in TypeOk : \/ blkid[d].LABEL \in {upper(ds_cfg["fs_label"]), lower(ds_cfg["fs_label"])}
                             \/ blkid[d].LABEL_FATBOOT = ds_cfg["fs_label"]}

\* an iso9660 volume labeled CiData is left out, a vfat volume found both by
\* its label CIDATA and by its LABEL_FATBOOT is listed once
C28_Witness ==
    /\ step = "listed"
    /\ ds_cfg["fs_label"] = "cidata"
    /\ blkid[<<"/dev/sr0">>] = [TYPE |-> "iso9660", LABEL |-> "CiData", LABEL_FATBOOT |-> ""]
    /\ blkid[<<"/dev/vdb">>] = [TYPE |-> "vfat", LABEL |-> "CIDATA", LABEL_FATBOOT |-> "cidata"]
    /\ devlist = << <<"/dev/vdb">> >>

\* the structured network configs that the sources, the fetched seedfrom
\* included, supplied
Structured == {contribs[i].nc : i \in NonEmpty("nc")}

\* C29 (as stated): what network_config returns is a structured
\* network-config whenever a source supplied one; the converted
\* network-interfaces of the metadata only when none did; and every read
\* returns what the first returned.
C29_Original ==
    reads # <<>>
    => /\ Structured # {} => reads[1] \in Structured
       /\ (Structured = {} /\ network_eni # NoneT)
            => reads[1] = convert_eni_data(metadata["network-interfaces"])
       /\ \A i \in DOMAIN reads : reads[i] = reads[1]

\* C29: what network_config returns is the structured network-config that
\* merging ended with: what the seedfrom fetch returned if a URL was
\* fetched, else the last non-empty one of the gathered sources.  When that
\* is None (no source had one, or the fetch returned none after a source
\* had) and the metadata has network-interfaces, it is the conversion of
\* that key, which is kept, so that every read returns what the first
\* returned.
C29_HeldOrConverted ==
    reads # <<>>
    => LET held == IF FetchedAt # 0 THEN contribs[FetchedAt].nc
                   ELSE IF NonEmpty("nc") = {} THEN None
                   ELSE contribs[Last(NonEmpty("nc"))].nc
       IN /\ held # None => reads[1] = held
          /\ (held = None /\ "network-interfaces" \in DOMAIN metadata)
               => reads[1] = convert_eni_data(metadata["network-interfaces"])
          /\ (held = None /\ "network-interfaces" \notin DOMAIN metadata)
               => reads[1] = None
          /\ network_config = reads[1]
          /\ \A i \in DOMAIN reads : reads[i] = reads[1]

\* a volume had a structured network-config, the fetched seedfrom had none,
\* and both reads returned the conversion of the network-interfaces of a
\* seed directory
C29_Witness ==
    /\ Len(reads) = 2
    /\ reads[1] = "v1-of-eni-dirnet"
    /\ reads[2] = reads[1]
    /\ FetchedAt # 0
    /\ \E i \in DOMAIN contribs : contribs[i].nc = "net-vol"

\* the metadata keys that the sources merged so far supplied
SuppliedKeys == UNION {DOMAIN contribs[i].md : i \in DOMAIN contribs}

\* C30: no step of _get_data (DMI, cmdline, seed directory, config, volume,
\* seedfrom fetch, defaults) takes a key out of the accumulated metadata: its
\* key set after a step includes its key set before, and the keys of every
\* source merged so far; the metadata of a True return has every key that a
\* contributing source supplied, and instance-id and dsmode.
C30_KeysOnlyGrow ==
    [][/\ DOMAIN mydata["meta-data"] \subseteq DOMAIN mydata'["meta-data"]
       /\ SuppliedKeys' \subseteq DOMAIN mydata'["meta-data"]
       /\ (step' = "done" /\ ret' = "True")
            => /\ metadata' = mydata'["meta-data"]
               /\ SuppliedKeys' \cup {"instance-id", "dsmode"} \subseteq DOMAIN metadata'
      ]_vars

\* four sources, each with a key that none before it had
C30_Witness ==
    /\ Over
    /\ ret = "True"
    /\ Len(contribs) >= 4
    /\ \A i \in 2..4 :
          \E k \in DOMAIN contribs[i].md :
             \A j \in 1..(i - 1) : k \notin DOMAIN contribs[j].md
    /\ DOMAIN metadata = MdKeys

\* the volume that contributed, when its meta-data has a seedfrom: its place
\* in contribs
VolumeSeedfrom ==
    {i \in DOMAIN contribs : contribs[i].src \in Devs /\ "seedfrom" \in DOMAIN contribs[i].md}

\* C31 (as stated): the seedfrom of the datasource config is the URL fetched
\* whatever DMI, the command line or a seed directory gave, but when the
\* volume that contributed has a seedfrom in its meta-data, the URL fetched
\* is the volume's.
C31_Original ==
    (fetches # <<>> /\ Truthy(Get(ds_cfg, "seedfrom")))
    => IF VolumeSeedfrom = {}
       THEN fetches[1] = ds_cfg["seedfrom"]
       ELSE \A i \in VolumeSeedfrom : fetches[1] = contribs[i].md["seedfrom"]

\* how far try_hotplug's loop has come: the attempt, and the step within it
StepRank ==
    4 * attempt + (CASE pc = "update_metadata" -> 0
                     [] pc = "detect_hotplugged_device" -> 1
                     [] pc = "apply" -> 2
                     [] pc = "success" -> 3
                     [] OTHER -> 0)

\* C32: every step of try_hotplug's loop moves on within the attempt, to
\* the next of at most five attempts, or out of the loop; the attempt whose
\* steps all succeed is the last (no refresh, apply or sleep after it), and
\* the loop is otherwise left by the raise after the fifth failed attempt.
\* Without force-retry handle_hotplug calls try_hotplug once and so makes
\* at most 5 refreshes, 5 applies and 5 sleeps.
C32_TryHotplugTerminates ==
    [][/\ (hotplug_action = "handle" /\ pc \in AttemptPcs)
            => /\ attempt \in 1..Len(wait_times)
               /\ pc' \in AttemptPcs => StepRank' > StepRank
               /\ pc' \notin AttemptPcs => pc' \in {"for_else", "exit", "sleep_period"}
       /\ (pc = "success" /\ lastRaised' = lastRaised)
            => /\ pc' \in {"exit", "sleep_period"}
               /\ slept' = slept
               /\ nRefresh' = nRefresh
               /\ nApply' = nApply
       /\ pc' = "for_else" => (Len(slept') = 5 /\ attempt' = 5)
       /\ (pc = "for_else") => (pc' = "except" /\ inflight' = last_exception)
       /\ (hotplug_action' = "handle" /\ ~datasource'.force_retry)
            => /\ round' <= 1
               /\ nRefresh' <= 5
               /\ nApply' <= 5
               /\ nSuccess' <= 5
               /\ Len(slept') <= 5
               /\ (pc' = "exit" /\ round' = 1 /\ outcome' = "returned")
                    => (nRefresh' = attempt' /\ Len(slept') = attempt' - 1)
               /\ (pc' = "exit" /\ round' = 1 /\ outcome' = "raised")
                    => (nRefresh' = 5 /\ Len(slept') = 5)
      ]_vars

\* the third attempt was the first whose steps all succeeded, and
\* handle_hotplug returned after it
C32_Witness ==
    /\ Handling
    /\ ~datasource.force_retry
    /\ pc = "exit"
    /\ outcome = "returned"
    /\ attempt = 3
    /\ nRefresh = 3
    /\ Len(slept) = 2
    /\ nSuccess = 1

\* handle_hotplug is handling an event whose action is not "add"
NonAddEvent == hotplug_action = "handle" /\ udevaction \notin {"add", "none"}

\* C33 (as stated): for an event whose action is not "add", whatever the
\* datasource, configuration is never applied and success_fn is never
\* called.
C33_Original ==
    NonAddEvent => (nApply = 0 /\ nSuccess = 0)

\* C33: for an event whose action is not "add" and a datasource that does
\* not set skip_hotplug_detect, every call of detect_hotplugged_device
\* raises, apply and success_fn are never called, and a call of try_hotplug
\* ends by raising.  With skip_hotplug_detect the detection is not called
\* at all, and then nothing keeps apply and success_fn from running.
C33_NonAddNeverApplied ==
    NonAddEvent
    => IF ~datasource.skip_hotplug_detect
       THEN /\ nApply = 0
            /\ nSuccess = 0
            /\ ~att.found
            /\ (pc = "exit" /\ round >= 1)
                 => (outcome = "raised" /\ Len(slept) = 5)
            /\ (nDetect > 0 /\ pc \in {"update_metadata", "for_else", "except", "exit"})
                 => lastRaised.kind \in {"ValueError: Unknown action",
                                         update_metadata("falsy"), update_metadata("raises")}
       ELSE nDetect = 0

\* a "remove" event: the detection was called in each of the five attempts
\* and raised ValueError every time; nothing was applied
C33_Witness ==
    /\ NonAddEvent
    /\ ~datasource.skip_hotplug_detect
    /\ pc = "exit"
    /\ nDetect = 5
    /\ nApply = 0
    /\ nSuccess = 0
    /\ exc.kind = "ValueError: Unknown action"

\* handle_hotplug returned normally for an event whose scope the datasource
\* supports and has enabled
HandledAndReturned ==
    /\ hotplug_action = "handle"
    /\ pc = "exit"
    /\ outcome = "returned"
    /\ fetched = "ok"
    /\ ~initialize_datasource(datasource).is_none

\* C34 (as stated): handle_hotplug returns normally for a supported and
\* enabled scope only if success_fn was called at least once, with or
\* without force_retry and whatever sleep_total is.
C34_Original ==
    HandledAndReturned => nSuccess >= 1

\* C34: the same, without force_retry, and with force_retry when sleep_total
\* is more than 0: the last attempt made ran all its steps.  With force_retry
\* and a sleep_total of 0 handle_hotplug returns normally without having
\* called try_hotplug: nothing refreshed, nothing applied, no success_fn.
C34_ReturnNeedsSuccess ==
    HandledAndReturned
    => IF ~datasource.force_retry \/ datasource.sleep_total > 0
       THEN /\ round >= 1
            /\ nSuccess >= 1
            /\ att.steps[Len(att.steps)] = "success"
       ELSE /\ round = 0
            /\ nRefresh = 0
            /\ nApply = 0
            /\ nSuccess = 0

\* force_retry with a sleep_total of 0: returned, and nothing was done
C34_Witness ==
    /\ HandledAndReturned
    /\ datasource.force_retry
    /\ datasource.sleep_total = 0
    /\ udevaction = "add"
    /\ round = 0
    /\ nSuccess = 0

\* C35: after any sequence of enable_hotplug calls (every process has
\* exited), a scope listed in the hotplug.enabled file has had
\* install_hotplug complete for it at least once.
C35_Original ==
    (pc = "exit" /\ NETWORK \in InRange(scopesOnDisk)) => installed

(* ======================================================================= *)
(* Two enable_hotplug calls at the same time                               *)
(* ======================================================================= *)
\* Two hotplug-hook processes, both "enable" for the subsystem net and both
\* run by root, each in its own enable_hotplug.  Nothing in enable_hotplug
\* locks hotplug.enabled: a step of one call is the fetch, the read of the
\* file (with the test and the append, which are local), the write of the
\* whole file, or install_hotplug, and the steps of the two calls interleave
\* in any order.
Enablers == {1, 2}

InitConcurrent ==
    /\ HotplugInit
    /\ NoSeedObject
    /\ NoExtraConfigObject
    /\ NoParse
    /\ NoSoftLayerObject
    /\ epc = [p \in Enablers |-> "enable_hotplug"]
    /\ efile = [p \in Enablers |-> <<>>]
    /\ eresult = [p \in Enablers |-> None]
    /\ einstalls = [p \in Enablers |-> 0]

\* What a step of one of the two calls leaves alone.
ERest ==
    /\ UNCHANGED <<procVars, dsVars, tryVars, countVars, attemptVars, enableVars,
                   ghostVars>>
    /\ UNCHANGED <<seedVars, extraVars, parseVars, softVars>>

\* enable_hotplug of call p returns r (or raises)
EReturn(p, r) ==
    /\ eresult' = [eresult EXCEPT ![p] = r]
    /\ epc' = [epc EXCEPT ![p] = "done"]

\* enable_hotplug up to the hotplug_supported test
EFetch(p) ==
    /\ epc[p] = "enable_hotplug"
    /\ \E ds \in FetchedDatasources :
         IF ds.is_none \/ ~hotplug_supported(ds)
         THEN EReturn(p, "False")
         ELSE /\ epc' = [epc EXCEPT ![p] = "read_hotplug_enabled_file"]
              /\ UNCHANGED eresult
    /\ UNCHANGED <<efile, einstalls, diskVars>>
    /\ ERest

\* util.read_hotplug_enabled_file, the "already done" test and the append
ERead(p) ==
    /\ epc[p] = "read_hotplug_enabled_file"
    /\ LET scope == SUBSYSTEM_PROPERTIES_MAP[subsystem].scope IN
         IF AlreadyDone(scopesOnDisk, scope)
         THEN /\ efile' = [efile EXCEPT ![p] = scopesOnDisk]
              /\ EReturn(p, "True")
         ELSE /\ efile' = [efile EXCEPT ![p] = AppendScope(scopesOnDisk, scope)]
              /\ epc' = [epc EXCEPT ![p] = "write_file"]
              /\ UNCHANGED eresult
    /\ UNCHANGED <<einstalls, diskVars>>
    /\ ERest

\* Mutant: the write adds the scope to what the file holds now.
EWrite_Append(p) ==
    /\ epc[p] = "write_file"
    /\ \E ok \in BOOLEAN :
         IF ok
         THEN /\ scopesOnDisk' = Append(scopesOnDisk, SUBSYSTEM_PROPERTIES_MAP[subsystem].scope)
              /\ epc' = [epc EXCEPT ![p] = "install_hotplug"]
              /\ UNCHANGED eresult
         ELSE /\ UNCHANGED scopesOnDisk
              /\ EReturn(p, "raised")
    /\ UNCHANGED <<efile, einstalls, installed>>
    /\ ERest

\* util.write_file(hotplug.enabled, json.dumps(hotplug_enabled_file),
\* omode="w"): the file is replaced by what this call holds.
EWrite(p) ==
    /\ epc[p] = "write_file"
    /\ \E ok \in BOOLEAN :
         IF ok
         THEN /\ scopesOnDisk' = efile[p]
              /\ epc' = [epc EXCEPT ![p] = "install_hotplug"]
              /\ UNCHANGED eresult
         ELSE /\ UNCHANGED scopesOnDisk
              /\ EReturn(p, "raised")
    /\ UNCHANGED <<efile, einstalls, installed>>
    /\ ERest

\* install_hotplug(datasource, network_hotplug_enabled=True, cfg=...)
EInstall(p) ==
    /\ epc[p] = "install_hotplug"
    /\ einstalls' = [einstalls EXCEPT ![p] = @ + 1]
    /\ \E ok \in BOOLEAN :
         IF ok
         THEN /\ installed' = TRUE
              /\ EReturn(p, "True")
         ELSE /\ UNCHANGED installed
              /\ EReturn(p, "raised")
    /\ UNCHANGED <<efile, scopesOnDisk>>
    /\ ERest

NextConcurrent ==
    \E p \in Enablers :
        \/ EFetch(p)
        \/ ERead(p)
        \/ EWrite(p)
        \/ EInstall(p)

SpecConcurrent == InitConcurrent /\ [][NextConcurrent]_vars

\* Both calls are over, neither stopped at the hotplug_supported test and
\* neither write_file nor install_hotplug raised.
BothEnabled ==
    \A p \in Enablers : epc[p] = "done" /\ eresult[p] \notin {"False", "raised"}

C37_Original ==
    (Over /\ ret = "False")
    => /\ NothingSet
       /\ dsmode = DSMODE_NETWORK

(* ======================================================================= *)
(* DataSourceExtraConfig (cloudinit/sources/DataSourceExtraConfig.py)      *)
(* ======================================================================= *)
\* A string is the sequence of its characters; a run of characters that has
\* no "=", no separator and no white space in it ("vs_instance_id", "i-1")
\* stands as one element.
Whitespace == {" "}

\* str.split(sep, maxsplit) for a one-character sep; maxsplit -1 is no limit
RECURSIVE split(_, _, _)
split(s, sep, maxsplit) ==
    IF maxsplit = 0 \/ \A i \in DOMAIN s : s[i] # sep
    THEN <<s>>
    ELSE LET i == CHOOSE i \in DOMAIN s :
                    s[i] = sep /\ \A j \in 1..(i - 1) : s[j] # sep
         IN <<SubSeq(s, 1, i - 1)>>
            \o split(SubSeq(s, i + 1, Len(s)), sep, maxsplit - 1)

\* str.strip()
RECURSIVE lstrip(_)
lstrip(s) == IF s # <<>> /\ s[1] \in Whitespace THEN lstrip(Tail(s)) ELSE s

RECURSIVE rstrip(_)
rstrip(s) ==
    IF s # <<>> /\ s[Len(s)] \in Whitespace
    THEN rstrip(SubSeq(s, 1, Len(s) - 1))
    ELSE s

strip(s) == rstrip(lstrip(s))

\* parse_metadata, one round of the loop: name, value = pair.split("=", 2)
\* raises ValueError, which is passed over, unless the split gave two
\* strings; hsh[name.strip()] = value.strip()
parse_pair(hash, pair) ==
    LET name_value == split(pair, "=", 2) IN
      IF Len(name_value) = 2
      THEN (strip(name_value[1]) :> strip(name_value[2])) @@ hash
      ELSE hash

RECURSIVE parse_pairs(_, _)
parse_pairs(hash, ps) ==
    IF ps = <<>> THEN hash ELSE parse_pairs(parse_pair(hash, ps[1]), Tail(ps))

\* parse_metadata(raw_metadata, seperator="&")
parse_metadata(raw, sep) == parse_pairs(EmptyDict, split(raw, sep, -1))

\* DEFAULT_IID, DEFAULT_METADATA, BUILTIN_DS_CONFIG
DEFAULT_IID == <<"iid-dsextraconfig">>
DEFAULT_METADATA == (<<"instance-id">> :> DEFAULT_IID)
BUILTIN_DS_CONFIG == ("metadata_format" :> "rightscale")

\* Mutant: an empty value is returned like any other.
fetch_extra_config_EmptyOk(r) ==
    IF r.st = "OSError"
    THEN [exc |-> "NoVmwareToolsInstall", data |-> <<>>]
    ELSE [exc |-> "none", data |-> r.data]

\* fetch_extra_config, given what util.subp([VMTOOLSD, command]) did
fetch_extra_config(r) ==
    IF r.st = "OSError"
    THEN [exc |-> "NoVmwareToolsInstall", data |-> <<>>]
    ELSE IF r.data = <<>>
         THEN [exc |-> "NonExtraConfigDataSource", data |-> <<>>]
         ELSE [exc |-> "none", data |-> r.data]

\* The name=value pairs guestinfo.metadata is made of
MaxPairs == 2
MdPairs ==
    { <<"vs_instance_id", "=", "i-1">>,
      <<"instance-id", "=", "i-2">>,
      <<" ", "vs_instance_id", " ", "=", " ", "i-3", " ">>,
      <<"vs_instance_id">>,
      <<"vs_instance_id", "=", "i-1", "=", "z">>,
      <<"k", "=", "v">> }

RECURSIVE JoinWith(_, _)
JoinWith(ps, sep) ==
    IF ps = <<>> THEN <<>>
    ELSE IF Len(ps) = 1 THEN ps[1]
    ELSE ps[1] \o <<sep>> \o JoinWith(Tail(ps), sep)

\* guestinfo.metadata: up to MaxPairs pairs with "&" between them
MdRaws ==
    {JoinWith(ps, "&") : ps \in UNION {[1..n -> MdPairs] : n \in 0..MaxPairs}}
\* guestinfo.userdata
UdRaws == {<<>>, <<"ud-1">>, <<"ud-2">>}

\* what util.subp([VMTOOLSD, command]) does: no such command, or its output
SubpResults(datas) ==
    {[st |-> "OSError", data |-> <<>>]} \cup {[st |-> "ok", data |-> d] : d \in datas}

\* sys_cfg's datasource/ExtraConfig
SysCfgs ==
    {EmptyDict, ("metadata_format" :> "rightscale"), ("metadata_format" :> "openstack")}

\* get_data, lines 98-101, when md has what the format needs
Metadata(cfg, md) ==
    mergemanydict(
        IF cfg["metadata_format"] = "rightscale"
        THEN (<<"instance-id">> :> md[<<"vs_instance_id">>]) @@ md
        ELSE md,
        DEFAULT_METADATA)

\* The object as __init__ leaves it, or as a get_data that returned True did.
ExtraConfigObjects ==
    { [userdata_raw |-> NoneT, metadata |-> EmptyDict],
      [userdata_raw |-> <<"ud-0">>,
       metadata |-> Metadata(BUILTIN_DS_CONFIG,
                             parse_metadata(<<"vs_instance_id", "=", "i-0">>, "&"))] }

\* get_data is called
InitExtraConfig ==
    /\ HotplugInit
    /\ scopesOnDisk = <<>>
    /\ NoSeedObject
    /\ NoEnablers
    /\ NoParse
    /\ NoSoftLayerObject
    /\ ec_ds_cfg \in {mergemanydict(c, BUILTIN_DS_CONFIG) : c \in SysCfgs}
    /\ \E o \in ExtraConfigObjects :
         /\ ec_userdata_raw = o.userdata_raw
         /\ ec_metadata = o.metadata
         /\ ec_before = o
    /\ ec_step = "fetch_metadata"
    /\ md_raw = <<>>
    /\ ud_raw = <<>>
    /\ ec_ret = None

ECRest ==
    UNCHANGED <<hotplugVars, seedVars, enablersVars, parseVars, softVars>>

\* return r, or an exception that leaves get_data (r = "raised")
ECReturn(r) ==
    /\ ec_step' = "done"
    /\ ec_ret' = r

\* md_raw = self.fetch_extra_config('metadata'); either exception of it is
\* passed over, found stays False and get_data returns False
FetchMetadata ==
    /\ ec_step = "fetch_metadata"
    /\ \E r \in SubpResults(MdRaws) :
         LET f == fetch_extra_config(r) IN
           IF f.exc # "none"
           THEN /\ ECReturn("False")
                /\ UNCHANGED md_raw
           ELSE /\ md_raw' = f.data
                /\ ec_step' = "fetch_userdata"
                /\ UNCHANGED ec_ret
    /\ UNCHANGED <<ec_ds_cfg, ec_userdata_raw, ec_metadata, ud_raw, ec_before>>
    /\ ECRest

\* ud_raw = self.fetch_extra_config('userdata'); found = True
FetchUserdata ==
    /\ ec_step = "fetch_userdata"
    /\ \E r \in SubpResults(UdRaws) :
         LET f == fetch_extra_config(r) IN
           IF f.exc # "none"
           THEN /\ ECReturn("False")
                /\ UNCHANGED ud_raw
           ELSE /\ ud_raw' = f.data
                /\ ec_step' = "found"
                /\ UNCHANGED ec_ret
    /\ UNCHANGED <<ec_ds_cfg, ec_userdata_raw, ec_metadata, md_raw, ec_before>>
    /\ ECRest

\* get_data from "self.userdata_raw = ud_raw" on; md['vs_instance_id'] of a
\* md without that key raises KeyError, which leaves get_data
SetData ==
    /\ ec_step = "found"
    /\ ec_userdata_raw' = ud_raw
    /\ LET md == parse_metadata(md_raw, "&") IN
         IF /\ ec_ds_cfg["metadata_format"] = "rightscale"
            /\ <<"vs_instance_id">> \notin DOMAIN md
         THEN /\ ECReturn("raised")
              /\ UNCHANGED ec_metadata
         ELSE /\ ec_metadata' = Metadata(ec_ds_cfg, md)
              /\ ECReturn("True")
    /\ UNCHANGED <<ec_ds_cfg, md_raw, ud_raw, ec_before>>
    /\ ECRest

NextExtraConfig ==
    \/ FetchMetadata
    \/ FetchUserdata
    \/ SetData

SpecExtraConfig == InitExtraConfig /\ [][NextExtraConfig]_vars

\* C38: get_data returns True only when guestinfo.metadata and
\* guestinfo.userdata were both fetched and not empty; when a fetch fails (no
\* vmtoolsd, or an empty value) it returns False and userdata_raw and
\* metadata are what they were; when it returns True, metadata has
\* "instance-id": the vs_instance_id of the metadata under the rightscale
\* format, else the instance-id the metadata gave, else "iid-dsextraconfig".
C38_GetData ==
    /\ ec_ret = "True" => (md_raw # <<>> /\ ud_raw # <<>>)
    /\ (ec_step = "done" /\ (md_raw = <<>> \/ ud_raw = <<>>))
       => /\ ec_ret = "False"
          /\ ec_userdata_raw = ec_before.userdata_raw
          /\ ec_metadata = ec_before.metadata
    /\ ec_ret = "False" => (md_raw = <<>> \/ ud_raw = <<>>)
    /\ ec_ret = "True"
       => LET md == parse_metadata(md_raw, "&") IN
            /\ <<"instance-id">> \in DOMAIN ec_metadata
            /\ ec_metadata[<<"instance-id">>] =
                 IF ec_ds_cfg["metadata_format"] = "rightscale"
                 THEN md[<<"vs_instance_id">>]
                 ELSE IF <<"instance-id">> \in DOMAIN md
                      THEN md[<<"instance-id">>]
                      ELSE DEFAULT_IID

\* a format other than rightscale and a metadata without instance-id: the
\* default is filled in, over an object that held other data before
C38_Witness ==
    /\ ec_ret = "True"
    /\ ec_ds_cfg["metadata_format"] = "openstack"
    /\ md_raw = <<"k", "=", "v">>
    /\ ec_metadata[<<"instance-id">>] = DEFAULT_IID
    /\ ec_before.userdata_raw = <<"ud-0">>
    /\ ec_userdata_raw = <<"ud-2">>

(* ------------------------ parse_metadata by itself --------------------- *)
\* The characters raw_metadata is made of, and how many it has at most
Chars == {"k", "v", "=", " ", "&", ";"}
MaxRawLen == 5
RawStrings == UNION {[1..n -> Chars] : n \in 0..MaxRawLen}

\* parse_metadata is called with a raw_metadata and a seperator
InitParse ==
    /\ HotplugInit
    /\ scopesOnDisk = <<>>
    /\ NoSeedObject
    /\ NoEnablers
    /\ NoExtraConfigObject
    /\ NoSoftLayerObject
    /\ raw_metadata \in RawStrings
    /\ seperator \in {"&", ";"}
    /\ hsh = EmptyDict
    /\ returned = FALSE

\* hsh = {}; the loop over raw_metadata.split(seperator); return hsh
ParseMetadata ==
    /\ ~returned
    /\ hsh' = parse_metadata(raw_metadata, seperator)
    /\ returned' = TRUE
    /\ UNCHANGED <<raw_metadata, seperator>>
    /\ UNCHANGED <<hotplugVars, seedVars, enablersVars, extraVars, softVars>>

NextParse == ParseMetadata

SpecParse == InitParse /\ [][NextParse]_vars

\* The place of the first "=" of a pair, 0 if it has none
FirstEq(pair) ==
    IF \A i \in DOMAIN pair : pair[i] # "="
    THEN 0
    ELSE CHOOSE i \in DOMAIN pair :
             pair[i] = "=" /\ \A j \in 1..(i - 1) : pair[j] # "="

\* The pairs of raw_metadata, by place, that have an "=" in them
WithEq(ps) == {i \in DOMAIN ps : FirstEq(ps[i]) # 0}
NameOf(pair) == strip(SubSeq(pair, 1, FirstEq(pair) - 1))
ValueOf(pair) == strip(SubSeq(pair, FirstEq(pair) + 1, Len(pair)))

\* C39: parse_metadata gives an entry name -> value for every pair of
\* raw_metadata that has an "=" in it, name and value being what is before
\* and after the pair's first "=" with the white space around them taken
\* off; of two pairs with one name the later one's value stands; and it gives
\* no other entries (pairs with no "=" are dropped).
C39_Original ==
    returned
    => LET ps == split(raw_metadata, seperator, -1) IN
         /\ DOMAIN hsh = {NameOf(ps[i]) : i \in WithEq(ps)}
         /\ \A i \in WithEq(ps) :
              (\A j \in WithEq(ps) : j > i => NameOf(ps[j]) # NameOf(ps[i]))
              => hsh[NameOf(ps[i])] = ValueOf(ps[i])

(* ======================================================================= *)
(* DataSourceSoftLayer (cloudinit/sources/DataSourceSoftLayer.py)          *)
(* ======================================================================= *)
\* get_data: the items it fetches, in order, and the attribute each is for
MetadataItems ==
    << [item |-> "FullyQualifiedDomainName.txt", key |-> "public_fqdn"],
       [item |-> "Hostname.txt", key |-> "hostname"],
       [item |-> "Id.txt", key |-> "instance-id"],
       [item |-> "UserMetadata.txt", key |-> "userdata_raw"] >>

\* url_helper.readurl(url=item_url): it raises, or gives a response
ReadurlResults ==
    {[st |-> "raises", code |-> 0, contents |-> ""]}
    \cup {[st |-> "ok", code |-> c, contents |-> x] : c \in {200, 204}, x \in {"c1", "c2"}}

\* _fetch_metadata_item, given the response: resp.contents if resp.code is
\* 200, None if not
_fetch_metadata_item(resp) == IF resp.code = 200 THEN resp.contents ELSE None

\* The object as __init__ leaves it, or as a get_data that returned True did.
SoftLayerObjects ==
    { [metadata |-> EmptyDict, userdata_raw |-> None],
      [metadata |-> [k \in {"public_fqdn", "hostname", "instance-id"} |-> "c0"],
       userdata_raw |-> "c0"] }

\* get_data is called
InitSoftLayer ==
    /\ HotplugInit
    /\ scopesOnDisk = <<>>
    /\ NoSeedObject
    /\ NoEnablers
    /\ NoExtraConfigObject
    /\ NoParse
    /\ \E o \in SoftLayerObjects :
         /\ sl_metadata = o.metadata
         /\ sl_userdata_raw = o.userdata_raw
         /\ sl_before = o
    /\ sl_step = 1
    /\ sl_ret = None
    /\ sl_items = <<>>

\* One line of get_data's try block: the item is fetched and assigned; after
\* the last one get_data returns True.  Whatever readurl raises, the bare
\* except returns False.
FetchItem ==
    /\ sl_step \in DOMAIN MetadataItems
    /\ \E r \in ReadurlResults :
         /\ sl_items' = Append(sl_items, r)
         /\ IF r.st = "raises"
            THEN /\ sl_ret' = "False"
                 /\ sl_step' = Len(MetadataItems) + 1
                 /\ UNCHANGED <<sl_metadata, sl_userdata_raw>>
            ELSE /\ IF MetadataItems[sl_step].key = "userdata_raw"
                    THEN /\ sl_userdata_raw' = _fetch_metadata_item(r)
                         /\ UNCHANGED sl_metadata
                    ELSE /\ sl_metadata' = (MetadataItems[sl_step].key :> _fetch_metadata_item(r))
                                           @@ sl_metadata
                         /\ UNCHANGED sl_userdata_raw
                 /\ sl_step' = sl_step + 1
                 /\ sl_ret' = IF sl_step = Len(MetadataItems) THEN "True" ELSE None
    /\ UNCHANGED sl_before
    /\ UNCHANGED <<hotplugVars, seedVars, enablersVars, extraVars, parseVars>>

NextSoftLayer == FetchItem

SpecSoftLayer == InitSoftLayer /\ [][NextSoftLayer]_vars

\* C40: when get_data has returned False, metadata and userdata_raw are what
\* they were when it was called; when it has returned True, metadata has
\* public_fqdn, hostname and instance-id, none of them None.
C40_Original ==
    /\ sl_ret = "False"
       => /\ sl_metadata = sl_before.metadata
          /\ sl_userdata_raw = sl_before.userdata_raw
    /\ sl_ret = "True"
       => \A k \in {"public_fqdn", "hostname", "instance-id"} :
            /\ k \in DOMAIN sl_metadata
            /\ sl_metadata[k] # None

====
